---- MODULE Spec2Model ----
(***************************************************************************)
(* Verification model of the incremental Datalog translator                *)
(* (src/src/AstTranslator.cpp, src/src/IncrementalTransformer.cpp).        *)
(*                                                                         *)
(* The translator is modelled in two layers:                               *)
(*   - pure operators that build the RAM statements the C++ code builds    *)
(*     (translateRecursiveRelation, makeIncrementalCleanupSubroutine, ...) *)
(*   - a state machine whose first phase is the program driver             *)
(*     (translateProgram, one action per block of its SCC loop) and whose  *)
(*     second phase runs the emitted RAM program statement by statement    *)
(*     over a small relation store.                                        *)
(***************************************************************************)
EXTENDS Integers, Sequences, FiniteSets, TLC

\* ------------------------------------------------------------------------
\* Bounds of the model
\* ------------------------------------------------------------------------

\* loop iterations in which a rule may still derive a tuple
MaxIter == 1

\* number of epochs (runs of the emitted program over the same store)
MaxEpochs == 2

\* ------------------------------------------------------------------------
\* Small helpers
\* ------------------------------------------------------------------------

RECURSIVE SeqConcat(_)
SeqConcat(ss) == IF ss = <<>> THEN <<>> ELSE Head(ss) \o SeqConcat(Tail(ss))

Range(s) == { s[i] : i \in 1..Len(s) }

MaxOf(S) == CHOOSE m \in S : \A x \in S : x <= m

\* all orders in which the elements of a finite set can be enumerated
Perms(S) == { p \in [1..Cardinality(S) -> S] : \A x \in S : \E i \in DOMAIN p : p[i] = x }

\* ------------------------------------------------------------------------
\* Input programs: the typed AST together with the results of the
\* precedence / SCC / recursive-clause / expiry analyses.
\*   rels    : name -> [arity, input, output]   (arity is the SOURCE arity)
\*   sccs    : the topological order of SCCs, each a set of relation names
\*   rec     : whether the SCC is recursive
\*   clauses : original rules [head, atoms, negs]; an atom is a relation name
\*   expired : relations expired at each index of the topological order
\* ------------------------------------------------------------------------

Rel(ar, in, out) == [arity |-> ar, input |-> in, output |-> out]
Cl(h, as, ns) == [head |-> h, atoms |-> as, negs |-> ns]

\* p(x) :- q(x).
ProgCopy ==
  [ rels    |-> [r \in {"q", "p"} |-> IF r = "q" THEN Rel(1, TRUE, FALSE) ELSE Rel(1, FALSE, TRUE)],
    sccs    |-> << {"q"}, {"p"} >>,
    rec     |-> << FALSE, FALSE >>,
    clauses |-> << Cl("p", <<"q">>, <<>>) >>,
    expired |-> << {}, {"q", "p"} >> ]

\* tc(x,y) :- e(x,y).  tc(x,y) :- e(x,z), tc(z,y).   (e is also an output)
ProgTc ==
  [ rels    |-> [r \in {"e", "tc"} |-> IF r = "e" THEN Rel(1, TRUE, TRUE) ELSE Rel(1, FALSE, TRUE)],
    sccs    |-> << {"e"}, {"tc"} >>,
    rec     |-> << FALSE, TRUE >>,
    clauses |-> << Cl("tc", <<"e">>, <<>>), Cl("tc", <<"e", "tc">>, <<>>) >>,
    expired |-> << {}, {"e", "tc"} >> ]

\* a(x) :- b(x).  b(x) :- a(x).   a is an input of the recursive SCC {a,b}
ProgMutual ==
  [ rels    |-> [r \in {"a", "b"} |-> IF r = "a" THEN Rel(1, TRUE, FALSE) ELSE Rel(1, FALSE, TRUE)],
    sccs    |-> << {"a", "b"} >>,
    rec     |-> << TRUE >>,
    clauses |-> << Cl("a", <<"b">>, <<>>), Cl("b", <<"a">>, <<>>) >>,
    expired |-> << {"a", "b"} >> ]

\* p() :- q(x).  p() :- q(x), p().   a recursive relation of arity 0
ProgNullary ==
  [ rels    |-> [r \in {"q", "p"} |-> IF r = "q" THEN Rel(1, TRUE, FALSE) ELSE Rel(0, FALSE, TRUE)],
    sccs    |-> << {"q"}, {"p"} >>,
    rec     |-> << FALSE, TRUE >>,
    clauses |-> << Cl("p", <<"q">>, <<>>), Cl("p", <<"q", "p">>, <<>>) >>,
    expired |-> << {}, {"q", "p"} >> ]

\* r(x) :- e(x).  r(x) :- r(x), !n(x).   negation inside a recursive rule
ProgNeg ==
  [ rels    |-> [r \in {"e", "n", "r"} |-> IF r = "r" THEN Rel(1, FALSE, TRUE) ELSE Rel(1, TRUE, FALSE)],
    sccs    |-> << {"e"}, {"n"}, {"r"} >>,
    rec     |-> << FALSE, FALSE, TRUE >>,
    clauses |-> << Cl("r", <<"e">>, <<>>), Cl("r", <<"r">>, <<"n">>) >>,
    expired |-> << {}, {}, {"e", "n", "r"} >> ]

Programs == { ProgCopy, ProgTc, ProgMutual, ProgNullary, ProgNeg }

\* p(x) :- e(x), f(x), e(x), !n(x), !m(x).
\* t(x) :- e(x).  t(x) :- t(x), e(x), t(x), !n(x).
ProgJoin ==
  [ rels    |-> [r \in {"e", "f", "n", "m", "p", "t"} |->
                   IF r \in {"p", "t"} THEN Rel(1, FALSE, TRUE) ELSE Rel(1, TRUE, FALSE)],
    sccs    |-> << {"e"}, {"f"}, {"n"}, {"m"}, {"p"}, {"t"} >>,
    rec     |-> << FALSE, FALSE, FALSE, FALSE, FALSE, TRUE >>,
    clauses |-> << Cl("p", <<"e", "f", "e">>, <<"n", "m">>),
                   Cl("t", <<"e">>, <<>>),
                   Cl("t", <<"t", "e", "t">>, <<"n">>) >>,
    expired |-> << {}, {}, {}, {}, {}, {"e", "f", "n", "m", "p", "t"} >> ]

\* the program without relations: its SCC graph has no node
ProgEmpty ==
  [ rels    |-> [r \in {} |-> Rel(0, FALSE, FALSE)],
    sccs    |-> << >>,
    rec     |-> << >>,
    clauses |-> << >>,
    expired |-> << >> ]

\* ------------------------------------------------------------------------
\* Relation variants: translateRelation(rel, prefix) names the RAM relation
\* prefix + name; a reference is identified by that name.
\* ------------------------------------------------------------------------

translateRelation(rel, relationNamePrefix) == relationNamePrefix \o rel

translateDeltaRelation(rel) == translateRelation(rel, "@delta_")
translateNewRelation(rel) == translateRelation(rel, "@new_")
translatePreviousIndexedRelation(rel) == translateRelation(rel, "@indexed_")
translateDiffMinusRelation(rel) == translateRelation(rel, "diff_minus@_")
translateDiffPlusRelation(rel) == translateRelation(rel, "diff_plus@_")
translateNewDiffMinusRelation(rel) == translateRelation(rel, "@new_diff_minus@_")
\* a mangler that names the new_diff_plus variant like the new_diff_minus one
translateNewDiffPlusRelationAsMinus(rel) == translateRelation(rel, "@new_diff_minus@_")
translateNewDiffPlusRelation(rel) == translateRelation(rel, "@new_diff_plus@_")
translateDiffMinusAppliedRelation(rel) == translateRelation(rel, "diff_minus_applied@_")
translateDeltaDiffMinusAppliedRelation(rel) == translateRelation(rel, "@delta_diff_minus_applied@_")
translateDiffPlusAppliedRelation(rel) == translateRelation(rel, "diff_plus_applied@_")
translateDiffMinusCountRelation(rel) == translateRelation(rel, "diff_minus_count@_")
translateDiffPlusCountRelation(rel) == translateRelation(rel, "diff_plus_count@_")
translateDeltaDiffMinusCountRelation(rel) == translateRelation(rel, "@delta_diff_minus_count@_")
translateDeltaDiffPlusCountRelation(rel) == translateRelation(rel, "@delta_diff_plus_count@_")
translateDiffAppliedRelation(rel) == translateRelation(rel, "diff_applied@_")
translateTemporaryDeltaDiffAppliedRelation(rel) == translateRelation(rel, "@temp_delta_diff_applied@_")
translateDeltaDiffAppliedRelation(rel) == translateRelation(rel, "@delta_diff_applied@_")

\* the mangler as a function of the relation name and the variant
variantTags ==
  { "base", "delta", "new", "previous_indexed", "diff_minus", "diff_plus", "new_diff_minus",
    "new_diff_plus", "diff_minus_applied", "delta_diff_minus_applied", "diff_plus_applied",
    "diff_minus_count", "diff_plus_count", "delta_diff_minus_count", "delta_diff_plus_count",
    "diff_applied", "temp_delta_diff_applied", "delta_diff_applied" }

mangle(rel, tag) ==
  CASE tag = "base" -> translateRelation(rel, "")
    [] tag = "delta" -> translateDeltaRelation(rel)
    [] tag = "new" -> translateNewRelation(rel)
    [] tag = "previous_indexed" -> translatePreviousIndexedRelation(rel)
    [] tag = "diff_minus" -> translateDiffMinusRelation(rel)
    [] tag = "diff_plus" -> translateDiffPlusRelation(rel)
    [] tag = "new_diff_minus" -> translateNewDiffMinusRelation(rel)
    [] tag = "new_diff_plus" -> translateNewDiffPlusRelation(rel)
    [] tag = "diff_minus_applied" -> translateDiffMinusAppliedRelation(rel)
    [] tag = "delta_diff_minus_applied" -> translateDeltaDiffMinusAppliedRelation(rel)
    [] tag = "diff_plus_applied" -> translateDiffPlusAppliedRelation(rel)
    [] tag = "diff_minus_count" -> translateDiffMinusCountRelation(rel)
    [] tag = "diff_plus_count" -> translateDiffPlusCountRelation(rel)
    [] tag = "delta_diff_minus_count" -> translateDeltaDiffMinusCountRelation(rel)
    [] tag = "delta_diff_plus_count" -> translateDeltaDiffPlusCountRelation(rel)
    [] tag = "diff_applied" -> translateDiffAppliedRelation(rel)
    [] tag = "temp_delta_diff_applied" -> translateTemporaryDeltaDiffAppliedRelation(rel)
    [] tag = "delta_diff_applied" -> translateDeltaDiffAppliedRelation(rel)

\* relation names as the parser and the provenance transformer make them:
\* identifiers, joined by "." when qualified; the only "@" is that of the
\* component @info
IdentifierNames ==
  { "x", "_x", "delta_x", "new_x", "indexed_x", "diff_plus", "diff_plus_x", "diff_applied",
    "delta_diff_applied", "a.x", "x.@info.1" }

\* names that begin like a variant
MarkedNames == { "@new_x", "@delta_x", "diff_plus@_x", "@delta_diff_applied@_x" }

\* the relation holding the largest iteration number of an SCC's members
maxIterRelation(indexOfScc) == "scc_" \o ToString(indexOfScc) \o "_@max_iter"

\* the name of the exit-condition subroutine of an SCC
exitSubroutineName(indexOfScc) == "scc_" \o ToString(indexOfScc) \o "_exit"

\* ------------------------------------------------------------------------
\* The nodes of the AST.  An argument is a variable, an unnamed variable, a
\* number, the iteration number or an aggregator over atoms; a literal is an
\* atom, a negated atom or a constraint.
\* ------------------------------------------------------------------------

AstVariable(name) == [kind |-> "variable", name |-> name, body |-> << >>]
AstUnnamedVariable == [kind |-> "unnamed", name |-> "_", body |-> << >>]
AstNumberConstant(n) == [kind |-> "number", name |-> ToString(n), body |-> << >>]
AstIterationNumber == [kind |-> "iteration", name |-> "", body |-> << >>]
AstAggregator(target, body) == [kind |-> "aggregator", name |-> target, body |-> body]
AstIntrinsicFunctor(op, lhs, rhs) == [kind |-> "functor", name |-> op, body |-> << lhs, rhs >>]

AstAtom(name, args) == [lit |-> "atom", name |-> name, args |-> args]
AstNegation(atom) == [lit |-> "negation", name |-> atom.name, args |-> atom.args]
AstBinaryConstraint(op, lhs, rhs) == [lit |-> "constraint", name |-> op, args |-> << lhs, rhs >>]

AstPositiveNegation(atom) == [lit |-> "positiveNegation", name |-> atom.name, args |-> atom.args]
AstExistenceCheck(atom) == [lit |-> "existenceCheck", name |-> atom.name, args |-> atom.args]
AstDisjunctionConstraint(lhs, rhs) == [lit |-> "disjunction", name |-> "", args |-> << lhs, rhs >>]
AstSubsumptionNegation(atom, n) ==
  [lit |-> "subsumptionNegation", name |-> atom.name, args |-> atom.args, n |-> n]

\* the annotation columns of the body atom at position j (from 1), as
\* IncrementalTransformer::transform names them
annotationsOf(j) ==
  << AstVariable("@iteration_" \o ToString(j - 1)),
     AstVariable("@prev_count_" \o ToString(j - 1)),
     AstVariable("@current_count_" \o ToString(j - 1)) >>

\* setName, and setArgument on the columns arity - 3, arity - 2, arity - 1
setName(atom, name) == [lit |-> atom.lit, name |-> name, args |-> atom.args]
setIteration(atom, value) == [atom EXCEPT !.args[1] = value]
setPrevCount(atom, value) == [atom EXCEPT !.args[2] = value]
setCurCount(atom, value) == [atom EXCEPT !.args[3] = value]
getPrevCount(atom) == atom.args[2]
getCurCount(atom) == atom.args[3]
getIteration(atom) == atom.args[1]

\* no rule: the statement is not a translated clause
NoRule == [head |-> AstAtom("", << >>), atoms |-> << >>, relations |-> << >>, body |-> << >>]

\* ------------------------------------------------------------------------
\* RAM statements.  The statement tree is kept flattened: a RamSequence is
\* the concatenation of its children, a RamLoop is bracketed by LoopBegin /
\* LoopEnd, and every statement carries
\*   blk  : the block of translateProgram that emitted it
\*   part : the part of the fixpoint translation it belongs to
\*   par  : the index of its child in the enclosing RamParallel (0: none)
\*   rel  : the SCC member the statement was emitted for ("" : none)
\*   scc  : the index of the stratum the statement ends up in
\*   proj : the values a Query projects (kept for the cleanup rewrite only)
\*   rd   : relations scanned by a Query
\*   ex   : relations probed by an existence check of a Query
\*   ed   : relations probed by an emptiness check (Query or Exit condition)
\*   ne   : those of ed that the Query requires to be non-empty (body atoms)
\*   direct : relations the statement refers to through a RamRelation that
\*            was allocated on the spot, not through createRelationReference
\*   clause : the clause a Query was translated from
\* ------------------------------------------------------------------------

St(op, dst, src, aux) ==
  [ op |-> op, dst |-> dst, src |-> src, aux |-> aux,
    rd |-> {}, ex |-> {}, ed |-> {}, ne |-> {}, proj |-> << >>,
    blk |-> "", part |-> "", par |-> 0, rel |-> "", scc |-> 0, direct |-> {},
    clause |-> NoRule ]

\* RamLogTimer around the main program: the statement in front of the
\* statements it wraps
RamLogTimer == St("LogTimer", "", "", "")
\* the main program of an empty SCC graph with the timer of the profile
emptyMainTimed(c) == IF c.profile THEN << RamLogTimer >> ELSE << >>

RamCreate(r) == St("Create", r, "", "")
RamLoad(r) == St("Load", r, "", "")
RamStore(r) == St("Store", "", r, "")
RamDrop(r) == St("Drop", r, "", "")
RamClear(r) == St("Clear", r, "", "")
RamMerge(target, source) == St("Merge", target, source, "")
RamPositiveMerge(target, source) == St("PositiveMerge", target, source, "")
RamSemiMerge(target, source, restriction) == St("SemiMerge", target, source, restriction)
RamSwap(a, b) == St("Swap", a, b, "")

\* every statement of a sequence gets the given block / part / child index
InBlock(ss, b) == [i \in DOMAIN ss |-> [ss[i] EXCEPT !.blk = b]]
InPart(ss, p) == [i \in DOMAIN ss |-> [ss[i] EXCEPT !.part = p]]
InChild(ss, c) == [i \in DOMAIN ss |-> [ss[i] EXCEPT !.par = c]]
InRel(ss, r) == [i \in DOMAIN ss |-> [ss[i] EXCEPT !.rel = r]]
InScc(ss, n) == [i \in DOMAIN ss |-> [ss[i] EXCEPT !.scc = n]]

\* the relations a statement reads, and the relation(s) it writes
Reads(s) ==
  s.rd \cup s.ex \cup s.ed
    \cup (IF s.op \in {"Merge", "PositiveMerge", "SemiMerge", "Store"} THEN {s.src} ELSE {})
    \cup (IF s.op = "SemiMerge" /\ s.aux # "" THEN {s.aux} ELSE {})

Writes(s) ==
  IF s.op \in {"Merge", "PositiveMerge", "SemiMerge", "Load", "Query", "MaxQuery"} THEN {s.dst}
  ELSE IF s.op = "Swap" THEN {s.dst, s.src}
  ELSE {}

\* the relations a statement refers to
Refs(s) ==
  Reads(s) \cup Writes(s) \cup (IF s.op \in {"Create", "Clear", "Drop"} THEN {s.dst} ELSE {})

\* ------------------------------------------------------------------------
\* The AST after the transformers have run
\* ------------------------------------------------------------------------

\* IncrementalTransformer::transform adds @iteration, @prev_count and
\* @current_count to every relation; the provenance transformer adds the
\* rule-number and level-number columns.
arityOf(cfg, prog, r) ==
  prog.rels[r].arity + (IF cfg.incremental THEN 3 ELSE 0) + (IF cfg.provenance THEN 2 ELSE 0)

\* attribute names with the iteration column after the first count column
attributeNamesCountFirst(cfg, prog, r) ==
  [ i \in 1..prog.rels[r].arity |-> "x" \o ToString(i) ]
    \o (IF cfg.incremental THEN << "@prev_count", "@iteration", "@current_count" >> ELSE << >>)
    \o (IF cfg.provenance THEN << "@rule_number", "@level_number" >> ELSE << >>)

\* the attribute names of a relation: those of the source, then the columns
\* added by the transformer that ran
attributeNames(cfg, prog, r) ==
  [ i \in 1..prog.rels[r].arity |-> "x" \o ToString(i) ]
    \o (IF cfg.incremental THEN << "@iteration", "@prev_count", "@current_count" >> ELSE << >>)
    \o (IF cfg.provenance THEN << "@rule_number", "@level_number" >> ELSE << >>)

\* the prefixes translateRelation is called with ("" names the relation itself)
variantPrefixes ==
  { "", "@delta_", "@new_", "@indexed_", "diff_minus@_", "diff_plus@_",
    "@new_diff_minus@_", "@new_diff_plus@_", "diff_minus_applied@_",
    "@delta_diff_minus_applied@_", "diff_plus_applied@_", "diff_minus_count@_",
    "diff_plus_count@_", "@delta_diff_minus_count@_", "@delta_diff_plus_count@_",
    "diff_applied@_", "@temp_delta_diff_applied@_", "@delta_diff_applied@_" }

\* createRelationReference: the relation is added to the table of the RAM
\* program unless one of that name is there already; the reference is to the
\* entry of the table
createRelationReference(table, name, arity, attrs) ==
  IF name \in DOMAIN table THEN table
  ELSE [ n \in DOMAIN table \cup {name} |->
           IF n = name THEN [ arity |-> arity, attributeNames |-> attrs ] ELSE table[n] ]

\* the table after translateRelation(rel, prefix) was called for every name
\* of the set names
RECURSIVE translateRelations(_, _, _, _)
translateRelations(cfg, prog, table, names) ==
  IF \A r \in DOMAIN prog.rels, x \in variantPrefixes :
       translateRelation(r, x) \in names => translateRelation(r, x) \in DOMAIN table
  THEN table
  ELSE LET c == CHOOSE c \in (DOMAIN prog.rels) \X variantPrefixes :
                  /\ translateRelation(c[1], c[2]) \in names
                  /\ translateRelation(c[1], c[2]) \notin DOMAIN table
       IN translateRelations(cfg, prog,
            createRelationReference(table, translateRelation(c[1], c[2]),
                                    arityOf(cfg, prog, c[1]), attributeNames(cfg, prog, c[1])),
            names)

\* the table after the references of a block of statements were created
referencesOf(cfg, prog, table, block) ==
  translateRelations(cfg, prog, table,
    UNION { Refs(block[i]) \ block[i].direct : i \in DOMAIN block })

sccOf(prog, r) == CHOOSE i \in DOMAIN prog.sccs : r \in prog.sccs[i]

isInSameSCC(scc, r) == r \in scc

\* RecursiveClauses::recursive(clause)
recursive(prog, c) == \E j \in DOMAIN c.atoms : c.atoms[j] \in prog.sccs[sccOf(prog, c.head)]

\* rel.getClauses(), in program order
getClauses(prog, r) == SelectSeq(prog.clauses, LAMBDA c : c.head = r)

\* the clauses a rule is replaced by, in the order transform() adds them:
\* makeNegativeUpdateClause (counts 1,-1), makePositiveUpdateClause (0,1),
\* makePositiveGenerationClause (1,1)
transform(c) ==
  << [cl |-> c, prevCount |-> 1, curCount |-> -1],
     [cl |-> c, prevCount |-> 0, curCount |-> 1],
     [cl |-> c, prevCount |-> 1, curCount |-> 1] >>

isReinsertionRule(ic) == ic.prevCount = 1 /\ ic.curCount = 1
isInsertionRule(ic) == ic.curCount = 1 /\ ~isReinsertionRule(ic)
isDeletionRule(ic) == ic.curCount = -1

\* ------------------------------------------------------------------------
\* ClauseTranslator::translateClause, reduced to the relations the emitted
\* Query touches.  An atom is the name of the RAM relation it ranges over
\* together with the AST relation that fixes its arity.
\* ------------------------------------------------------------------------

At(name, rel) == [name |-> name, rel |-> rel]
AtNames(as) == { as[j].name : j \in DOMAIN as }

\* a Project that is guarded by an existence check of the head in every mode
createOperationGuarded(cfg, prog, head) ==
  [ St("Query", head.name, "", "") EXCEPT
      !.ed = IF arityOf(cfg, prog, head.rel) = 0 THEN {head.name} ELSE {},
      !.ex = {head.name} ]

\* createOperation: the Project into the head; a nullary head is guarded by
\* an emptiness check of the head; under provenance in interpreted mode the
\* Project is guarded by a negated existence check of the head.
createOperation(cfg, prog, head) ==
  [ St("Query", head.name, "", "") EXCEPT
      !.ed = IF arityOf(cfg, prog, head.rel) = 0 THEN {head.name} ELSE {},
      !.ex = IF cfg.provenance /\ ~cfg.compile THEN {head.name} ELSE {} ]

\* createCondition: the stopping criterion on the original clause's head
createCondition(cfg, prog, origHead) ==
  IF arityOf(cfg, prog, origHead.rel) = 0 THEN {origHead.name} ELSE {}

\* per body atom: a negated emptiness check, and a Scan when the atom has
\* columns (with a Break on the head's emptiness when the head is nullary);
\* body negations and existence checks become existence probes
translateClause(cfg, prog, head, atoms, probes, origHead) ==
  LET op == createOperation(cfg, prog, head)
      scanned == { j \in DOMAIN atoms : arityOf(cfg, prog, atoms[j].rel) # 0 }
  IN  [ op EXCEPT
          !.rd = { atoms[j].name : j \in scanned },
          !.ex = op.ex \cup probes,
          !.ne = AtNames(atoms),
          !.ed = op.ed \cup AtNames(atoms)
                   \cup (IF scanned # {} /\ arityOf(cfg, prog, head.rel) = 0
                           THEN {head.name} ELSE {})
                   \cup createCondition(cfg, prog, origHead) ]

\* ------------------------------------------------------------------------
\* The clauses handed to translateClause by the incremental translation.  Of
\* the arguments of an atom only the three annotation columns are kept:
\* @iteration, @prev_count and @current_count.  A rule is the head, the body
\* atoms in order, the AST relation of every body atom, and the other body
\* literals in the order in which addToBody appended them.
\* ------------------------------------------------------------------------

\* the clause of the AST as a rule: clause->clone()
cloneOf(prog, ic) ==
  [ head |-> AstAtom(translateRelation(ic.cl.head, ""),
                     << IF recursive(prog, ic.cl) THEN AstIterationNumber ELSE AstNumberConstant(0),
                        AstNumberConstant(ic.prevCount), AstNumberConstant(ic.curCount) >>),
    atoms |-> [ j \in DOMAIN ic.cl.atoms |-> AstAtom(translateRelation(ic.cl.atoms[j], ""), annotationsOf(j)) ],
    relations |-> ic.cl.atoms,
    body |-> [ j \in DOMAIN ic.cl.negs |->
                 AstNegation(AstAtom(translateRelation(ic.cl.negs[j], ""),
                                     << AstUnnamedVariable, AstUnnamedVariable, AstUnnamedVariable >>)) ] ]

\* clause->getNegations()[j]->getAtom()
getNegatedAtom(cl, j) ==
  LET n == SelectSeq(cl.body, LAMBDA l : l.lit = "negation")[j] IN AstAtom(n.name, n.args)

\* the AST relations of the negated atoms
negatedRelations(ic) == ic.cl.negs

setHeadName(cl, name) == [cl EXCEPT !.head = setName(@, name)]
setAtomName(cl, j, name) == [cl EXCEPT !.atoms[j] = setName(@, name)]
addToBody(cl, lits) == [cl EXCEPT !.body = @ \o lits]
addAtomToBody(cl, atom, relation) ==
  [cl EXCEPT !.atoms = Append(@, atom), !.relations = Append(@, relation)]
clearNegations(cl) == [cl EXCEPT !.body = SelectSeq(@, LAMBDA l : l.lit # "negation")]

\* the names given to several atoms at once
RECURSIVE setAtomNames(_, _, _)
setAtomNames(cl, js, names) ==
  IF js = << >> THEN cl
  ELSE setAtomNames(setAtomName(cl, Head(js), names[Head(js)]), Tail(js), names)

\* the positions lo..hi as a sequence
positions(lo, hi) == [ k \in 1..(IF hi >= lo THEN hi - lo + 1 ELSE 0) |-> lo + k - 1 ]

\* the relations a literal that is not an atom probes
RECURSIVE probedBy(_)
probedBy(l) ==
  IF l.lit = "disjunction" THEN probedBy(l.args[1]) \cup probedBy(l.args[2])
  ELSE IF l.lit = "constraint" THEN {}
  ELSE {l.name}

probesOf(cl) == UNION { probedBy(cl.body[k]) : k \in DOMAIN cl.body }

\* "cur tuple is not in prev" of the pivot, with the counts (0, 1)
noPrevious(atom, name) ==
  setPrevCount(setCurCount(setName(atom, name), AstNumberConstant(1)), AstNumberConstant(0))

\* the atom of an earlier position in the count relation of the update, with
\* the counts (prev, _)
curAtom(atom, name, prev) ==
  setPrevCount(setCurCount(setName(atom, name), AstUnnamedVariable), AstNumberConstant(prev))

\* translateNonRecursiveRelation, isInsertionRule: the rule for the insertion
\* of a tuple of the atom at position i; the atoms at the positions 1..last
\* get the constraint "not inserted, or present before"
insertionRuleWith(prog, ic, i, last) ==
  LET clause == cloneOf(prog, ic)
      atoms == clause.atoms
      rels == clause.relations
      n == Len(atoms)
      named == setAtomNames(setHeadName(clause, translateDiffPlusRelation(ic.cl.head)),
                 positions(1, n),
                 [ j \in 1..n |-> IF j = i THEN translateDiffPlusCountRelation(rels[j])
                                  ELSE translateDiffAppliedRelation(rels[j]) ])
  IN  clearNegations(addToBody(named,
        << AstPositiveNegation(noPrevious(atoms[i], translateRelation(rels[i], ""))),
           AstBinaryConstraint("LE", getPrevCount(atoms[i]), AstNumberConstant(0)),
           AstBinaryConstraint("GT", getCurCount(atoms[i]), AstNumberConstant(0)) >>
        \o [ j \in 1..last |->
               AstDisjunctionConstraint(
                 AstPositiveNegation(curAtom(atoms[j], translateDiffPlusCountRelation(rels[j]), 0)),
                 AstExistenceCheck(noPrevious(atoms[j], translateRelation(rels[j], "")))) ]
        \o [ j \in DOMAIN ic.cl.negs |->
               AstPositiveNegation(setName(getNegatedAtom(clause, j),
                                           translateDiffAppliedRelation(ic.cl.negs[j]))) ]))

\* an insertion rule without the constraints on the atoms before the pivot
insertionRuleUnconstrained(prog, ic, i) == insertionRuleWith(prog, ic, i, 0)

\* the loop "for (size_t j = 0; j < i; j++)" constrains the atoms before i
insertionRule(prog, ic, i) == insertionRuleWith(prog, ic, i, i - 1)

\* the rule for the deletion of a tuple of the negation at position i
insertionRuleOfNegation(prog, ic, i) ==
  LET clause == cloneOf(prog, ic)
      negs == ic.cl.negs
      n == Len(clause.atoms)
      added == addAtomToBody(setHeadName(clause, translateDiffPlusRelation(ic.cl.head)),
                 setIteration(setCurCount(setName(getNegatedAtom(clause, i),
                                                  translateDiffMinusCountRelation(negs[i])),
                                          AstNumberConstant(0)),
                              AstUnnamedVariable),
                 negs[i])
      lits == addToBody(added,
        << AstPositiveNegation(noPrevious(getNegatedAtom(clause, i), translateDiffAppliedRelation(negs[i]))) >>
        \o [ j \in 1..(i - 1) |->
               AstDisjunctionConstraint(
                 AstPositiveNegation(curAtom(getNegatedAtom(clause, j), translateDiffMinusCountRelation(negs[j]), -1)),
                 AstExistenceCheck(noPrevious(getNegatedAtom(clause, j), translateDiffAppliedRelation(negs[j])))) ]
        \o [ j \in DOMAIN negs |->
               AstPositiveNegation(setName(getNegatedAtom(clause, j), translateDiffAppliedRelation(negs[j]))) ])
  IN  clearNegations(setAtomNames(lits, positions(1, n),
        [ j \in 1..n |-> translateDiffAppliedRelation(clause.relations[j]) ]))

\* isDeletionRule: the rule for the deletion of a tuple of the atom at
\* position i; the atoms from position first on are renamed
deletionRuleWith(prog, ic, i, first) ==
  LET clause == cloneOf(prog, ic)
      atoms == clause.atoms
      rels == clause.relations
      n == Len(atoms)
      named == setAtomNames(setHeadName(clause, translateDiffMinusRelation(ic.cl.head)),
                 positions(first, n),
                 [ j \in 1..n |-> IF j = i THEN translateDiffMinusCountRelation(rels[j])
                                  ELSE translateDiffMinusAppliedRelation(rels[j]) ])
  IN  clearNegations(addToBody(named,
        << AstPositiveNegation(noPrevious(atoms[i], translateDiffAppliedRelation(rels[i]))),
           AstBinaryConstraint("GT", getPrevCount(atoms[i]), AstNumberConstant(0)),
           AstBinaryConstraint("LE", getCurCount(atoms[i]), AstNumberConstant(0)) >>
        \o [ j \in 1..(i - 1) |->
               AstDisjunctionConstraint(
                 AstPositiveNegation(curAtom(atoms[j], translateDiffMinusCountRelation(rels[j]), -1)),
                 AstExistenceCheck(noPrevious(atoms[j], translateDiffAppliedRelation(rels[j])))) ]
        \o [ j \in DOMAIN ic.cl.negs |-> AstPositiveNegation(getNegatedAtom(clause, j)) ]))

\* a deletion rule in which the atoms before the pivot are renamed as well
deletionRuleAllApplied(prog, ic, i) == deletionRuleWith(prog, ic, i, 1)

\* the pivot and the atoms after it are renamed, the atoms before it keep
\* their names
deletionRule(prog, ic, i) == deletionRuleWith(prog, ic, i, i)

\* the rule for the insertion of a tuple of the negation at position i
deletionRuleOfNegation(prog, ic, i) ==
  LET clause == cloneOf(prog, ic)
      negs == ic.cl.negs
      added == addAtomToBody(setHeadName(clause, translateDiffMinusRelation(ic.cl.head)),
                 setIteration(setPrevCount(setCurCount(setName(getNegatedAtom(clause, i),
                                                               translateDiffPlusCountRelation(negs[i])),
                                                       AstUnnamedVariable),
                                           AstNumberConstant(0)),
                              AstUnnamedVariable),
                 negs[i])
  IN  clearNegations(addToBody(added,
        << AstPositiveNegation(noPrevious(getNegatedAtom(clause, i), translateRelation(negs[i], ""))) >>
        \o [ j \in 1..(i - 1) |->
               AstDisjunctionConstraint(
                 AstPositiveNegation(curAtom(getNegatedAtom(clause, j), translateDiffPlusCountRelation(negs[j]), 0)),
                 AstExistenceCheck(noPrevious(getNegatedAtom(clause, j), translateRelation(negs[j], "")))) ]
        \o [ j \in DOMAIN negs |-> AstPositiveNegation(getNegatedAtom(clause, j)) ]))

\* the rules of one transformed clause, in the order of the statements
nonRecRules(prog, ic) ==
  IF isReinsertionRule(ic) THEN << >>
  ELSE IF isInsertionRule(ic) THEN
    [ i \in DOMAIN ic.cl.atoms |-> insertionRule(prog, ic, i) ]
      \o [ i \in DOMAIN ic.cl.negs |-> insertionRuleOfNegation(prog, ic, i) ]
  ELSE IF isDeletionRule(ic) THEN
    [ i \in DOMAIN ic.cl.atoms |-> deletionRule(prog, ic, i) ]
      \o [ i \in DOMAIN ic.cl.negs |-> deletionRuleOfNegation(prog, ic, i) ]
  ELSE << >>

\* a statement with the clause it was translated from
withClauses(statements, rules) ==
  [ k \in DOMAIN statements |-> [ statements[k] EXCEPT !.clause = rules[k] ] ]

\* ------------------------------------------------------------------------
\* translateNonRecursiveRelation
\* ------------------------------------------------------------------------

\* insertion rule with the i-th atom as the pivot
nonRecInsertion(cfg, prog, rel, c, i) ==
  LET head == At(translateDiffPlusRelation(rel), rel)
      atoms == [ j \in DOMAIN c.atoms |->
                   IF j = i THEN At(translateDiffPlusCountRelation(c.atoms[j]), c.atoms[j])
                   ELSE At(translateDiffAppliedRelation(c.atoms[j]), c.atoms[j]) ]
      probes == { translateRelation(c.atoms[i], "") }
                  \cup { translateDiffPlusCountRelation(c.atoms[j]) : j \in 1..(i - 1) }
                  \cup { translateRelation(c.atoms[j], "") : j \in 1..(i - 1) }
                  \cup { translateDiffAppliedRelation(c.negs[j]) : j \in DOMAIN c.negs }
  IN  translateClause(cfg, prog, head, atoms, probes, head)

\* insertion caused by the deletion of the i-th negated atom
nonRecInsertionNeg(cfg, prog, rel, c, i) ==
  LET head == At(translateDiffPlusRelation(rel), rel)
      atoms == [ j \in DOMAIN c.atoms |-> At(translateDiffAppliedRelation(c.atoms[j]), c.atoms[j]) ]
                 \o << At(translateDiffMinusCountRelation(c.negs[i]), c.negs[i]) >>
      probes == { translateDiffAppliedRelation(c.negs[j]) : j \in DOMAIN c.negs }
                  \cup { translateDiffMinusCountRelation(c.negs[j]) : j \in 1..(i - 1) }
  IN  translateClause(cfg, prog, head, atoms, probes, head)

\* deletion rule with the i-th atom as the pivot
nonRecDeletion(cfg, prog, rel, c, i) ==
  LET head == At(translateDiffMinusRelation(rel), rel)
      atoms == [ j \in DOMAIN c.atoms |->
                   IF j < i THEN At(translateRelation(c.atoms[j], ""), c.atoms[j])
                   ELSE IF j = i THEN At(translateDiffMinusCountRelation(c.atoms[j]), c.atoms[j])
                   ELSE At(translateDiffMinusAppliedRelation(c.atoms[j]), c.atoms[j]) ]
      probes == { translateDiffAppliedRelation(c.atoms[j]) : j \in 1..i }
                  \cup { translateDiffMinusCountRelation(c.atoms[j]) : j \in 1..(i - 1) }
                  \cup { translateRelation(c.negs[j], "") : j \in DOMAIN c.negs }
  IN  translateClause(cfg, prog, head, atoms, probes, head)

\* deletion caused by the insertion of the i-th negated atom
nonRecDeletionNeg(cfg, prog, rel, c, i) ==
  LET head == At(translateDiffMinusRelation(rel), rel)
      atoms == [ j \in DOMAIN c.atoms |-> At(translateRelation(c.atoms[j], ""), c.atoms[j]) ]
                 \o << At(translateDiffPlusCountRelation(c.negs[i]), c.negs[i]) >>
      probes == { translateRelation(c.negs[j], "") : j \in DOMAIN c.negs }
                  \cup { translateDiffPlusCountRelation(c.negs[j]) : j \in 1..(i - 1) }
  IN  translateClause(cfg, prog, head, atoms, probes, head)

\* the rules of one transformed clause; the re-insertion branch is empty
nonRecIncremental(cfg, prog, rel, ic) ==
  IF isReinsertionRule(ic) THEN << >>
  ELSE IF isInsertionRule(ic) THEN
    [ i \in DOMAIN ic.cl.atoms |-> nonRecInsertion(cfg, prog, rel, ic.cl, i) ]
      \o [ i \in DOMAIN ic.cl.negs |-> nonRecInsertionNeg(cfg, prog, rel, ic.cl, i) ]
  ELSE IF isDeletionRule(ic) THEN
    [ i \in DOMAIN ic.cl.atoms |-> nonRecDeletion(cfg, prog, rel, ic.cl, i) ]
      \o [ i \in DOMAIN ic.cl.negs |-> nonRecDeletionNeg(cfg, prog, rel, ic.cl, i) ]
  ELSE << >>

\* the plain rule of a clause
nonRecPlain(cfg, prog, rel, c) ==
  translateClause(cfg, prog, At(translateRelation(rel, ""), rel),
                  [ j \in DOMAIN c.atoms |-> At(translateRelation(c.atoms[j], ""), c.atoms[j]) ],
                  { translateRelation(c.negs[j], "") : j \in DOMAIN c.negs },
                  At(translateRelation(rel, ""), rel))

translateNonRecursiveRelation(cfg, prog, rel) ==
  LET cls == SelectSeq(getClauses(prog, rel), LAMBDA c : ~recursive(prog, c))
  IN  IF cfg.incremental
      THEN SeqConcat([ k \in DOMAIN cls |->
             SeqConcat([ v \in 1..3 |->
               withClauses(nonRecIncremental(cfg, prog, rel, transform(cls[k])[v]),
                           nonRecRules(prog, transform(cls[k])[v])) ]) ])
      ELSE [ k \in DOMAIN cls |-> nonRecPlain(cfg, prog, rel, cls[k]) ]

\* ------------------------------------------------------------------------
\* translateRecursiveRelation: the rules of the loop body
\* ------------------------------------------------------------------------

\* positions of the body atoms whose relation is in the SCC, in order
sccAtoms(scc, c) == SelectSeq([ j \in DOMAIN c.atoms |-> j ], LAMBDA j : isInSameSCC(scc, c.atoms[j]))

\* re-insertion (generation) rule: one version per atom j of the SCC
recReinsertion(cfg, prog, scc, rel, c) ==
  LET head == At(translateNewDiffPlusRelation(rel), rel)
      js == sccAtoms(scc, c)
      atoms(j) == [ k \in DOMAIN c.atoms |->
                      IF k = j THEN At(translateDeltaDiffAppliedRelation(c.atoms[k]), c.atoms[k])
                      ELSE At(translateDiffAppliedRelation(c.atoms[k]), c.atoms[k]) ]
                    \o << At(translateDiffMinusCountRelation(rel), rel) >>
      probes == { translateRelation(c.atoms[k], "") : k \in DOMAIN c.atoms }
                  \cup { translateDiffAppliedRelation(rel) }
                  \cup { translateDiffAppliedRelation(c.negs[k]) : k \in DOMAIN c.negs }
                  \cup { translateDiffMinusCountRelation(c.negs[k]) : k \in DOMAIN c.negs }
  IN  [ v \in DOMAIN js |-> translateClause(cfg, prog, head, atoms(js[v]), probes, head) ]

\* insertion rule with pivot i: one version per atom j of the SCC
recInsertion(cfg, prog, scc, rel, c, i) ==
  LET head == At(translateNewDiffPlusRelation(rel), rel)
      js == sccAtoms(scc, c)
      atoms(j) == [ k \in DOMAIN c.atoms |->
                      IF k = j /\ k = i THEN At(translateDeltaDiffPlusCountRelation(c.atoms[k]), c.atoms[k])
                      ELSE IF k = j THEN At(translateDeltaDiffAppliedRelation(c.atoms[k]), c.atoms[k])
                      ELSE IF k = i THEN At(translateDiffPlusCountRelation(c.atoms[k]), c.atoms[k])
                      ELSE At(translateDiffAppliedRelation(c.atoms[k]), c.atoms[k]) ]
      probes == { translateRelation(c.atoms[i], "") }
                  \cup { translateDiffPlusCountRelation(c.atoms[k]) : k \in 1..(i - 1) }
                  \cup { translateRelation(c.atoms[k], "") : k \in 1..(i - 1) }
                  \cup { translateDiffAppliedRelation(c.negs[k]) : k \in DOMAIN c.negs }
                  \cup { translateDiffAppliedRelation(rel) }
  IN  [ v \in DOMAIN js |-> translateClause(cfg, prog, head, atoms(js[v]), probes, head) ]

\* insertion caused by the deletion of the i-th negated atom
recInsertionNeg(cfg, prog, scc, rel, c, i) ==
  LET head == At(translateNewDiffPlusRelation(rel), rel)
      js == sccAtoms(scc, c)
      atoms(j) == [ k \in DOMAIN c.atoms |->
                      IF k = j THEN At(translateDeltaDiffAppliedRelation(c.atoms[k]), c.atoms[k])
                      ELSE At(translateDiffAppliedRelation(c.atoms[k]), c.atoms[k]) ]
                    \o << At(translateDiffMinusCountRelation(c.negs[i]), c.negs[i]) >>
      probes == { translateDiffAppliedRelation(c.negs[k]) : k \in DOMAIN c.negs }
                  \cup { translateDiffMinusCountRelation(c.negs[k]) : k \in 1..(i - 1) }
                  \cup { translateDiffAppliedRelation(rel) }
  IN  [ v \in DOMAIN js |-> translateClause(cfg, prog, head, atoms(js[v]), probes, head) ]

\* deletion rule with pivot i: one version per atom j of the SCC
recDeletion(cfg, prog, scc, rel, c, i) ==
  LET head == At(translateNewDiffMinusRelation(rel), rel)
      js == sccAtoms(scc, c)
      atoms(j) == [ k \in DOMAIN c.atoms |->
                      IF k = j /\ k < i THEN At(translateDeltaRelation(c.atoms[k]), c.atoms[k])
                      ELSE IF k = j /\ k = i THEN At(translateDeltaDiffMinusCountRelation(c.atoms[k]), c.atoms[k])
                      ELSE IF k = j THEN At(translateDeltaDiffMinusAppliedRelation(c.atoms[k]), c.atoms[k])
                      ELSE IF k < i THEN At(translateRelation(c.atoms[k], ""), c.atoms[k])
                      ELSE IF k = i THEN At(translateDiffMinusCountRelation(c.atoms[k]), c.atoms[k])
                      ELSE At(translateDiffMinusAppliedRelation(c.atoms[k]), c.atoms[k]) ]
      probes == { translateDiffAppliedRelation(c.atoms[k]) : k \in 1..i }
                  \cup { translateDiffMinusCountRelation(c.atoms[k]) : k \in 1..(i - 1) }
                  \cup { translateRelation(c.negs[k], "") : k \in DOMAIN c.negs }
                  \cup { translateDiffAppliedRelation(rel) }
  IN  [ v \in DOMAIN js |-> translateClause(cfg, prog, head, atoms(js[v]), probes, head) ]

\* deletion caused by the insertion of the i-th negated atom
recDeletionNeg(cfg, prog, scc, rel, c, i) ==
  LET head == At(translateNewDiffMinusRelation(rel), rel)
      js == sccAtoms(scc, c)
      atoms(j) == [ k \in DOMAIN c.atoms |->
                      IF k = j THEN At(translateDeltaRelation(c.atoms[k]), c.atoms[k])
                      ELSE At(translateRelation(c.atoms[k], ""), c.atoms[k]) ]
                    \o << At(translateDiffPlusCountRelation(c.negs[i]), c.negs[i]) >>
      probes == { translateRelation(c.negs[k], "") : k \in DOMAIN c.negs }
                  \cup { translateDiffPlusCountRelation(c.negs[k]) : k \in 1..(i - 1) }
                  \cup { translateDiffAppliedRelation(rel) }
  IN  [ v \in DOMAIN js |-> translateClause(cfg, prog, head, atoms(js[v]), probes, head) ]

\* the semi-naive versions of a clause without the incremental extension:
\* atom j ranges over the delta, the head is the new relation, tuples already
\* in the relation are excluded, later atoms of the SCC must not be in delta
recPlain(cfg, prog, scc, rel, c) ==
  LET head == At(translateNewRelation(rel), rel)
      js == sccAtoms(scc, c)
      atoms(j) == [ k \in DOMAIN c.atoms |->
                      IF k = j THEN At(translateDeltaRelation(c.atoms[k]), c.atoms[k])
                      ELSE At(translateRelation(c.atoms[k], ""), c.atoms[k]) ]
      probes(j) == { translateRelation(c.negs[k], "") : k \in DOMAIN c.negs }
                     \cup (IF cfg.provenance \/ arityOf(cfg, prog, rel) > 0
                             THEN {translateRelation(rel, "")} ELSE {})
                     \cup { translateDeltaRelation(c.atoms[k]) :
                              k \in { m \in DOMAIN c.atoms : m > j /\ isInSameSCC(scc, c.atoms[m]) } }
  IN  [ v \in DOMAIN js |->
          translateClause(cfg, prog, head, atoms(js[v]), probes(js[v]), At(translateRelation(rel, ""), rel)) ]

\* ------------------------------------------------------------------------
\* translateRecursiveRelation: the clauses the rules of the loop body are
\* translated from
\* ------------------------------------------------------------------------

\* r1->reorderAtoms(newOrder): the atom at position i is the atom newOrder[i]
\* of the clause
reorderAtoms(cl, newOrder) ==
  [ cl EXCEPT !.atoms = [ i \in DOMAIN newOrder |-> cl.atoms[newOrder[i]] ],
              !.relations = [ i \in DOMAIN newOrder |-> cl.relations[newOrder[i]] ] ]

\* rdiff->clone(): a clause of its own with the same head, atoms and body
clone(cl) ==
  [ head |-> AstAtom(cl.head.name, cl.head.args),
    atoms |-> [ k \in DOMAIN cl.atoms |-> AstAtom(cl.atoms[k].name, cl.atoms[k].args) ],
    relations |-> cl.relations,
    body |-> cl.body ]

\* "for (size_t k = j + 1; k < atoms.size(); k++)": the atoms k after the
\* delta atom j get the constraint iteration_k < IterationNumber - 1; with
\* sccOnly only those whose relation is in the SCC
iterationConstraintsWith(scc, r1, j, n, sccOnly) ==
  LET ks == SelectSeq(positions(j + 1, n), LAMBDA k : ~sccOnly \/ isInSameSCC(scc, r1.relations[k]))
  IN  addToBody(r1, [ v \in DOMAIN ks |->
        AstBinaryConstraint("LT", getIteration(r1.atoms[ks[v]]),
          AstIntrinsicFunctor("SUB", AstIterationNumber, AstNumberConstant(1))) ])

\* a loop in which every later atom is constrained
iterationConstraintsOnAll(scc, r1, j, n) == iterationConstraintsWith(scc, r1, j, n, FALSE)

\* "if (isInSameSCC(getAtomRelation(atoms[k], program)))"
iterationConstraints(scc, r1, j, n) == iterationConstraintsWith(scc, r1, j, n, TRUE)

\* the head of the clause over diff_applied, excluded by subsumption
diffAppliedHeadAtom(prog, ic) ==
  setName(cloneOf(prog, ic).head, translateDiffAppliedRelation(ic.cl.head))

\* the version of rdiff with the delta at atom j: the name of the delta
\* variant and the constraints on the later atoms of the SCC
deltaVersion(scc, rdiff, j, n, name) ==
  iterationConstraints(scc, setAtomName(clone(rdiff), j, name), j, n)

\* isReinsertionRule: the clause before the versions are made
reinsertionClause(prog, ic) ==
  LET clause == cloneOf(prog, ic)
      atoms == clause.atoms
      rels == clause.relations
      n == Len(atoms)
      negs == ic.cl.negs
      named == setAtomNames(setHeadName(clause, translateNewDiffPlusRelation(ic.cl.head)),
                 positions(1, n), [ k \in 1..n |-> translateDiffAppliedRelation(rels[k]) ])
      deletedTuple == setIteration(setPrevCount(setCurCount(
                          setName(clause.head, translateDiffMinusCountRelation(ic.cl.head)),
                          AstVariable("@deleted_count")), AstUnnamedVariable), AstUnnamedVariable)
      notDeleted(k) == setIteration(setPrevCount(setCurCount(
                          setName(getNegatedAtom(clause, k), translateDiffMinusCountRelation(negs[k])),
                          AstNumberConstant(0)), AstUnnamedVariable), AstUnnamedVariable)
      checked == addToBody(named,
        [ k \in 1..n |->
            AstExistenceCheck(setPrevCount(setCurCount(setName(atoms[k], translateRelation(rels[k], "")),
                                                        AstNumberConstant(1)), AstUnnamedVariable)) ]
        \o << AstSubsumptionNegation(diffAppliedHeadAtom(prog, ic), 1) >>)
      probed == addToBody(addAtomToBody(checked, deletedTuple, ic.cl.head),
        << AstBinaryConstraint("LE", AstVariable("@deleted_count"), AstNumberConstant(0)) >>
        \o [ k \in DOMAIN negs |->
               AstPositiveNegation(setName(getNegatedAtom(clause, k), translateDiffAppliedRelation(negs[k]))) ])
  IN  addToBody(clearNegations(probed), [ k \in DOMAIN negs |-> AstNegation(notDeleted(k)) ])

\* the order that puts the atom added last in front
probeFirst(n) == << n + 1 >> \o positions(1, n)

\* the source order, in which the probe stays behind the atoms of the clause
probeLast(n) == positions(1, n + 1)

\* the re-derivation rules of a clause: one version per atom j of the SCC,
\* its atoms in the given order
reinsertionRulesWith(prog, scc, ic, reordering) ==
  LET js == sccAtoms(scc, ic.cl)
      n == Len(ic.cl.atoms)
      rdiff == reinsertionClause(prog, ic)
  IN  [ v \in DOMAIN js |->
          reorderAtoms(deltaVersion(scc, rdiff, js[v], n,
                                    translateDeltaDiffAppliedRelation(ic.cl.atoms[js[v]])),
                       reordering) ]

\* re-derivation rules that are not reordered
reinsertionRulesInSourceOrder(prog, scc, ic) ==
  reinsertionRulesWith(prog, scc, ic, probeLast(Len(ic.cl.atoms)))

\* "reordering.push_back(atoms.size()); ... r1->reorderAtoms(reordering)"
reinsertionRules(prog, scc, ic) ==
  reinsertionRulesWith(prog, scc, ic, probeFirst(Len(ic.cl.atoms)))

\* the rule of an update of the loop body before the versions are made: the
\* rule of the non-recursive translation with the head over the new variant
\* and the subsumption negation of the head over diff_applied
loopClause(prog, ic, rdiff, head) ==
  addToBody(setHeadName(rdiff, head), << AstSubsumptionNegation(diffAppliedHeadAtom(prog, ic), 1) >>)

\* isInsertionRule with pivot i: one version per atom j of the SCC
recInsertionRules(prog, scc, ic, i) ==
  LET js == sccAtoms(scc, ic.cl)
      rdiff == loopClause(prog, ic, insertionRule(prog, ic, i), translateNewDiffPlusRelation(ic.cl.head))
  IN  [ v \in DOMAIN js |->
          deltaVersion(scc, rdiff, js[v], Len(ic.cl.atoms),
            IF js[v] = i THEN translateDeltaDiffPlusCountRelation(ic.cl.atoms[js[v]])
            ELSE translateDeltaDiffAppliedRelation(ic.cl.atoms[js[v]])) ]

\* the insertion caused by the deletion of the i-th negated atom
recInsertionRulesOfNegation(prog, scc, ic, i) ==
  LET js == sccAtoms(scc, ic.cl)
      rdiff == loopClause(prog, ic, insertionRuleOfNegation(prog, ic, i),
                               translateNewDiffPlusRelation(ic.cl.head))
  IN  [ v \in DOMAIN js |->
          deltaVersion(scc, rdiff, js[v], Len(ic.cl.atoms),
                       translateDeltaDiffAppliedRelation(ic.cl.atoms[js[v]])) ]

\* isDeletionRule with pivot i: one version per atom j of the SCC
recDeletionRules(prog, scc, ic, i) ==
  LET js == sccAtoms(scc, ic.cl)
      rdiff == loopClause(prog, ic, deletionRule(prog, ic, i), translateNewDiffMinusRelation(ic.cl.head))
  IN  [ v \in DOMAIN js |->
          deltaVersion(scc, rdiff, js[v], Len(ic.cl.atoms),
            IF js[v] < i THEN translateDeltaRelation(ic.cl.atoms[js[v]])
            ELSE IF js[v] = i THEN translateDeltaDiffMinusCountRelation(ic.cl.atoms[js[v]])
            ELSE translateDeltaDiffMinusAppliedRelation(ic.cl.atoms[js[v]])) ]

\* the deletion caused by the insertion of the i-th negated atom
recDeletionRulesOfNegation(prog, scc, ic, i) ==
  LET js == sccAtoms(scc, ic.cl)
      rdiff == loopClause(prog, ic, deletionRuleOfNegation(prog, ic, i),
                               translateNewDiffMinusRelation(ic.cl.head))
  IN  [ v \in DOMAIN js |->
          deltaVersion(scc, rdiff, js[v], Len(ic.cl.atoms), translateDeltaRelation(ic.cl.atoms[js[v]])) ]

\* the clauses of the rules of one transformed recursive clause, in the
\* order of the statements
recRules(prog, scc, ic) ==
  IF isReinsertionRule(ic) THEN reinsertionRules(prog, scc, ic)
  ELSE IF isInsertionRule(ic) THEN
    SeqConcat([ i \in DOMAIN ic.cl.atoms |-> recInsertionRules(prog, scc, ic, i) ])
      \o SeqConcat([ i \in DOMAIN ic.cl.negs |-> recInsertionRulesOfNegation(prog, scc, ic, i) ])
  ELSE IF isDeletionRule(ic) THEN
    SeqConcat([ i \in DOMAIN ic.cl.atoms |-> recDeletionRules(prog, scc, ic, i) ])
      \o SeqConcat([ i \in DOMAIN ic.cl.negs |-> recDeletionRulesOfNegation(prog, scc, ic, i) ])
  ELSE << >>

\* the clone of a clause of a program that is not transformed: no annotation
\* columns
plainClone(c) ==
  [ head |-> AstAtom(translateRelation(c.head, ""), << >>),
    atoms |-> [ j \in DOMAIN c.atoms |-> AstAtom(translateRelation(c.atoms[j], ""), << >>) ],
    relations |-> c.atoms,
    body |-> [ j \in DOMAIN c.negs |-> AstNegation(AstAtom(translateRelation(c.negs[j], ""), << >>)) ] ]

\* the semi-naive version of a clause whose atoms at the positions deltas
\* range over the delta relation: the head is the new relation, a tuple
\* already in the relation is excluded (under provenance by subsumption, one
\* height parameter), the later atoms of the SCC must not be in their delta
\* relation
plainRuleWith(cfg, prog, scc, c, j, deltas) ==
  LET cl == plainClone(c)
      n == Len(c.atoms)
      r1 == setAtomNames(setHeadName(cl, translateNewRelation(c.head)), deltas,
                         [ k \in 1..n |-> translateDeltaRelation(c.atoms[k]) ])
      excluded == IF cfg.provenance THEN << AstSubsumptionNegation(cl.head, 2) >>
                  ELSE IF arityOf(cfg, prog, c.head) > 0 THEN << AstNegation(cl.head) >>
                  ELSE << >>
      ks == SelectSeq(positions(j + 1, n), LAMBDA k : isInSameSCC(scc, c.atoms[k]))
  IN  addToBody(r1, excluded
        \o [ v \in DOMAIN ks |-> AstNegation(setName(r1.atoms[ks[v]], translateDeltaRelation(c.atoms[ks[v]]))) ])

\* a version in which every atom of the SCC ranges over its delta relation
plainRuleAllDelta(cfg, prog, scc, c, j) == plainRuleWith(cfg, prog, scc, c, j, sccAtoms(scc, c))

\* "r1->getAtoms()[j]->setName(relDelta[atomRelation]->get()->getName())"
plainRule(cfg, prog, scc, c, j) == plainRuleWith(cfg, prog, scc, c, j, << j >>)

\* the versions of one recursive clause, one per atom of the SCC
plainRules(cfg, prog, scc, c) ==
  LET js == sccAtoms(scc, c) IN [ v \in DOMAIN js |-> plainRule(cfg, prog, scc, c, js[v]) ]

\* the rules of one transformed recursive clause
recIncremental(cfg, prog, scc, rel, ic) ==
  IF isReinsertionRule(ic) THEN recReinsertion(cfg, prog, scc, rel, ic.cl)
  ELSE IF isInsertionRule(ic) THEN
    SeqConcat([ i \in DOMAIN ic.cl.atoms |-> recInsertion(cfg, prog, scc, rel, ic.cl, i) ])
      \o SeqConcat([ i \in DOMAIN ic.cl.negs |-> recInsertionNeg(cfg, prog, scc, rel, ic.cl, i) ])
  ELSE IF isDeletionRule(ic) THEN
    SeqConcat([ i \in DOMAIN ic.cl.atoms |-> recDeletion(cfg, prog, scc, rel, ic.cl, i) ])
      \o SeqConcat([ i \in DOMAIN ic.cl.negs |-> recDeletionNeg(cfg, prog, scc, rel, ic.cl, i) ])
  ELSE << >>

\* loopRelSeq: the rules of all recursive clauses of one member
loopRelSeq(cfg, prog, scc, rel) ==
  LET cls == SelectSeq(getClauses(prog, rel), LAMBDA c : recursive(prog, c))
  IN  IF cfg.incremental
      THEN SeqConcat([ k \in DOMAIN cls |->
             SeqConcat([ v \in 1..3 |->
               withClauses(recIncremental(cfg, prog, scc, rel, transform(cls[k])[v]),
                           recRules(prog, scc, transform(cls[k])[v])) ]) ])
      ELSE SeqConcat([ k \in DOMAIN cls |->
             withClauses(recPlain(cfg, prog, scc, rel, cls[k]), plainRules(cfg, prog, scc, cls[k])) ])

\* ------------------------------------------------------------------------
\* translateRecursiveRelation: the tables of the fixpoint loop
\* ------------------------------------------------------------------------

\* an update table that does not swap delta and new
updateMergesNoSwap(cfg, rel) ==
  << RamMerge(translateRelation(rel, ""), translateNewRelation(rel)),
     RamClear(translateNewRelation(rel)) >>

\* an update table without the merges of the incremental translation
updateMergesClassic(cfg, rel) ==
  << RamMerge(translateRelation(rel, ""), translateNewRelation(rel)),
     RamSwap(translateDeltaRelation(rel), translateNewRelation(rel)),
     RamClear(translateNewRelation(rel)) >>

\* updateRelTable of one member: the merges of the iteration boundary
updateMerges(cfg, rel) ==
  << RamMerge(translateRelation(rel, ""), translateNewRelation(rel)),
     RamSwap(translateDeltaRelation(rel), translateNewRelation(rel)),
     RamClear(translateNewRelation(rel)) >>
  \o (IF cfg.incremental THEN
  << RamPositiveMerge(translateDeltaRelation(rel), translatePreviousIndexedRelation(rel)),
     RamMerge(translateDiffMinusRelation(rel), translateNewDiffMinusRelation(rel)),
     RamMerge(translateDiffPlusRelation(rel), translateNewDiffPlusRelation(rel)),
     RamMerge(translateDiffMinusAppliedRelation(rel), translateNewDiffMinusRelation(rel)),
     RamMerge(translateDiffPlusAppliedRelation(rel), translateNewDiffPlusRelation(rel)),
     RamMerge(translateDiffAppliedRelation(rel), translateNewDiffMinusRelation(rel)),
     RamMerge(translateDiffAppliedRelation(rel), translateNewDiffPlusRelation(rel)),
     RamMerge(translateDiffPlusCountRelation(rel), translateNewDiffPlusRelation(rel)),
     RamSemiMerge(translateDiffPlusCountRelation(rel), translateDeltaRelation(rel),
                  translateNewDiffPlusRelation(rel)),
     RamMerge(translateDiffPlusCountRelation(rel), translateNewDiffMinusRelation(rel)),
     RamMerge(translateDiffMinusCountRelation(rel), translateNewDiffMinusRelation(rel)),
     RamSemiMerge(translateDiffMinusCountRelation(rel), translateDeltaRelation(rel),
                  translateNewDiffMinusRelation(rel)),
     RamMerge(translateDiffMinusCountRelation(rel), translateNewDiffPlusRelation(rel)),
     RamSemiMerge(translateDeltaDiffAppliedRelation(rel), translateDeltaRelation(rel),
                  translateDiffAppliedRelation(rel)),
     RamMerge(translateDeltaDiffAppliedRelation(rel), translateNewDiffMinusRelation(rel)),
     RamMerge(translateDeltaDiffAppliedRelation(rel), translateNewDiffPlusRelation(rel)),
     RamMerge(translateDeltaDiffMinusAppliedRelation(rel), translateDeltaRelation(rel)),
     RamMerge(translateDeltaDiffMinusAppliedRelation(rel), translateNewDiffMinusRelation(rel)),
     RamMerge(translateDeltaDiffPlusCountRelation(rel), translateNewDiffPlusRelation(rel)),
     RamSemiMerge(translateDeltaDiffPlusCountRelation(rel), translateDiffMinusAppliedRelation(rel), ""),
     RamMerge(translateDeltaDiffMinusCountRelation(rel), translateNewDiffMinusRelation(rel)),
     RamSemiMerge(translateDeltaDiffMinusCountRelation(rel), translateDiffPlusAppliedRelation(rel), "") >>
  ELSE << >>)

\* updateRelTable of one member: the clears that end it
updateClears(cfg, rel) ==
  IF cfg.incremental THEN
  << RamClear(translateNewDiffMinusRelation(rel)),
     RamClear(translateNewDiffPlusRelation(rel)) >>
  ELSE << >>

\* an update table that clears the new_diff variants before merging them
updateRelTableClearFirst(cfg, rel) == updateClears(cfg, rel) \o updateMerges(cfg, rel)

updateRelTable(cfg, rel) == updateMerges(cfg, rel) \o updateClears(cfg, rel)

\* a clear table that also clears diff_plus and diff_minus
clearRelTableStable(cfg, rel) ==
  IF cfg.incremental THEN
  << RamClear(translateDeltaRelation(rel)),
     RamClear(translateDeltaDiffAppliedRelation(rel)),
     RamClear(translateTemporaryDeltaDiffAppliedRelation(rel)),
     RamClear(translateDeltaDiffMinusAppliedRelation(rel)),
     RamClear(translateDeltaDiffMinusCountRelation(rel)),
     RamClear(translateDeltaDiffPlusCountRelation(rel)),
     RamClear(translateDiffPlusRelation(rel)),
     RamClear(translateDiffMinusRelation(rel)) >>
  ELSE << >>

\* clearRelTable of one member (only the incremental translation has one)
clearRelTable(cfg, rel) ==
  IF cfg.incremental THEN
  << RamClear(translateDeltaRelation(rel)),
     RamClear(translateDeltaDiffAppliedRelation(rel)),
     RamClear(translateTemporaryDeltaDiffAppliedRelation(rel)),
     RamClear(translateDeltaDiffMinusAppliedRelation(rel)),
     RamClear(translateDeltaDiffMinusCountRelation(rel)),
     RamClear(translateDeltaDiffPlusCountRelation(rel)) >>
  ELSE << >>

\* a postamble that drops delta and new only
postambleRelClassic(cfg, rel) ==
  << RamDrop(translateDeltaRelation(rel)),
     RamDrop(translateNewRelation(rel)) >>

\* the postamble of one member
postambleRel(cfg, rel) ==
  << RamDrop(translateDeltaRelation(rel)),
     RamDrop(translateNewRelation(rel)) >>
  \o (IF cfg.incremental THEN
  << RamDrop(translatePreviousIndexedRelation(rel)),
     RamDrop(translateTemporaryDeltaDiffAppliedRelation(rel)),
     RamDrop(translateDeltaDiffAppliedRelation(rel)),
     RamDrop(translateDeltaDiffMinusAppliedRelation(rel)),
     RamDrop(translateDeltaDiffPlusCountRelation(rel)),
     RamDrop(translateDeltaDiffMinusCountRelation(rel)),
     RamDrop(translateNewDiffPlusRelation(rel)),
     RamDrop(translateNewDiffMinusRelation(rel)) >>
  ELSE << >>)

\* the preamble of one member; order is the iteration order of the SCC
preambleRel(cfg, prog, order, rel) ==
  translateNonRecursiveRelation(cfg, prog, rel)
  \o (IF cfg.incremental THEN
  [ m \in DOMAIN order |->
      RamMerge(translatePreviousIndexedRelation(order[m]), translateRelation(order[m], "")) ]
  \o
  << RamPositiveMerge(translateDeltaRelation(rel), translatePreviousIndexedRelation(rel)),
     RamMerge(translateDeltaDiffMinusAppliedRelation(rel), translateDeltaRelation(rel)),
     RamMerge(translateDeltaDiffMinusAppliedRelation(rel), translateDiffMinusRelation(rel)),
     RamMerge(translateDiffAppliedRelation(rel), translateRelation(rel, "")),
     RamMerge(translateDiffAppliedRelation(rel), translateDiffMinusRelation(rel)),
     RamMerge(translateDiffAppliedRelation(rel), translateDiffPlusRelation(rel)),
     RamMerge(translateDiffMinusAppliedRelation(rel), translateRelation(rel, "")),
     RamMerge(translateDiffMinusAppliedRelation(rel), translateDiffMinusRelation(rel)),
     RamMerge(translateDiffPlusAppliedRelation(rel), translateRelation(rel, "")),
     RamMerge(translateDiffPlusAppliedRelation(rel), translateDiffPlusRelation(rel)),
     RamMerge(translateDeltaDiffAppliedRelation(rel), translateDiffAppliedRelation(rel)),
     RamMerge(translateDiffPlusCountRelation(rel), translateDiffPlusRelation(rel)),
     RamSemiMerge(translateDiffPlusCountRelation(rel), translateDiffMinusAppliedRelation(rel), ""),
     RamMerge(translateDiffMinusCountRelation(rel), translateDiffMinusRelation(rel)),
     RamSemiMerge(translateDiffMinusCountRelation(rel), translateDiffPlusAppliedRelation(rel), ""),
     RamMerge(translateDeltaDiffPlusCountRelation(rel), translateDiffPlusRelation(rel)),
     RamSemiMerge(translateDeltaDiffPlusCountRelation(rel), translateDiffMinusAppliedRelation(rel), ""),
     RamMerge(translateDeltaDiffMinusCountRelation(rel), translateDiffMinusRelation(rel)),
     RamSemiMerge(translateDeltaDiffMinusCountRelation(rel), translateDiffPlusAppliedRelation(rel), "") >>
  ELSE << >>)
  \o << RamMerge(translateDeltaRelation(rel), translateRelation(rel, "")) >>

\* the relation of the largest iteration number: created in the preamble and
\* filled by nested MAX aggregates over the iteration column of every member
maxIterPreamble(cfg, order, indexOfScc) ==
  IF cfg.incremental THEN
  << [ RamCreate(maxIterRelation(indexOfScc)) EXCEPT
         !.direct = { maxIterRelation(indexOfScc) } ],
     [ St("MaxQuery", maxIterRelation(indexOfScc), "", "") EXCEPT
         !.rd = { translateRelation(order[m], "") : m \in DOMAIN order },
         !.direct = { maxIterRelation(indexOfScc) } ] >>
  ELSE << >>

\* an exit condition that leaves out the checks of new_diff_minus
exitCondPlusOnly(cfg, order, indexOfScc) ==
  [ St("Exit", "", IF cfg.incremental THEN exitSubroutineName(indexOfScc) ELSE "", "") EXCEPT
      !.ed = IF cfg.incremental
             THEN { translateNewDiffPlusRelation(order[m]) : m \in DOMAIN order }
             ELSE { translateNewRelation(order[m]) : m \in DOMAIN order } ]

\* the exit condition: a conjunction of emptiness checks of the new variants
\* of every member and, when incremental, the exit subroutine applied to
\* the iteration number
exitCond(cfg, order, indexOfScc) ==
  [ St("Exit", "", IF cfg.incremental THEN exitSubroutineName(indexOfScc) ELSE "", "") EXCEPT
      !.ed = IF cfg.incremental
             THEN { translateNewDiffPlusRelation(order[m]) : m \in DOMAIN order }
                    \cup { translateNewDiffMinusRelation(order[m]) : m \in DOMAIN order }
             ELSE { translateNewRelation(order[m]) : m \in DOMAIN order } ]

\* an exit subroutine that compares with > instead of >=
makeIncrementalExitCondSubroutineGT(maxIterRelationRef) ==
  [ scan |-> maxIterRelationRef, constraint |-> "GT", returnFalse |-> 0, returnTrue |-> 1 ]

\* makeIncrementalExitCondSubroutine: scan the max-iteration relation and
\* return 0 at the first tuple t0 with  t0.0 >= arg(0); return 1 otherwise
makeIncrementalExitCondSubroutine(maxIterRelationRef) ==
  [ scan |-> maxIterRelationRef, constraint |-> "GE", returnFalse |-> 0, returnTrue |-> 1 ]

\* loopSeq: the RamParallel of the members' rule sequences; a member without
\* recursive rules contributes no child
loopSeq(cfg, prog, order) ==
  SeqConcat([ m \in DOMAIN order |->
    InChild(InRel(loopRelSeq(cfg, prog, Range(order), order[m]), order[m]), m) ])

translateRecursiveRelation(cfg, prog, order, indexOfScc) ==
  LET preamble == SeqConcat([ m \in DOMAIN order |->
                    InRel(preambleRel(cfg, prog, order, order[m]), order[m]) ])
                  \o maxIterPreamble(cfg, order, indexOfScc)
      clearTable == SeqConcat([ m \in DOMAIN order |-> InRel(clearRelTable(cfg, order[m]), order[m]) ])
      updateTable == SeqConcat([ m \in DOMAIN order |-> InRel(updateRelTable(cfg, order[m]), order[m]) ])
      postamble == SeqConcat([ m \in DOMAIN order |-> InRel(postambleRel(cfg, order[m]), order[m]) ])
      body == loopSeq(cfg, prog, order)
  IN  InPart(preamble, "preamble")
      \o (IF body # << >> THEN
            InPart(<< St("LoopBegin", "", "", "") >>, "loop")
            \o InPart(body, "body")
            \o InPart(clearTable, "clear")
            \o InPart(<< exitCond(cfg, order, indexOfScc) >>, "exit")
            \o InPart(updateTable, "update")
            \o InPart(<< St("LoopEnd", "", "", "") >>, "loop")
          ELSE << >>)
      \o InPart(postamble, "postamble")

\* ------------------------------------------------------------------------
\* makeIncrementalCleanupSubroutine
\* ------------------------------------------------------------------------

TupleElement(level, pos) == [kind |-> "TupleElement", v |-> pos]
Number(n) == [kind |-> "Number", v |-> n]

\* a rewrite that also overwrites the iteration column
updateTupleNoIteration(arity) ==
  [ i \in 1..(arity - 3) |-> TupleElement(0, i - 1) ] \o << Number(0), Number(-1), Number(-1) >>

\* the values of the rewrite: every column but the last two, then -1, -1
updateTuple(arity) == [ i \in 1..(arity - 2) |-> TupleElement(0, i - 1) ] \o << Number(-1), Number(-1) >>

cleanupRel(cfg, prog, relation) ==
  InRel(
  << RamMerge(translateRelation(relation, ""), translateDiffMinusRelation(relation)),
     RamMerge(translateRelation(relation, ""), translateDiffPlusRelation(relation)),
     RamClear(translateDiffPlusRelation(relation)),
     RamClear(translateDiffMinusRelation(relation)),
     RamClear(translateDiffPlusCountRelation(relation)),
     RamClear(translateDiffMinusCountRelation(relation)),
     RamClear(translateDiffPlusAppliedRelation(relation)),
     RamClear(translateDiffMinusAppliedRelation(relation)),
     RamClear(translateDiffAppliedRelation(relation)),
     [ St("Query", translateRelation(relation, ""), "", "") EXCEPT
         !.rd = { translateRelation(relation, "") },
         !.proj = updateTuple(arityOf(cfg, prog, relation)) ] >>, relation)

\* relations: program.getRelations(), in the order the program lists them
makeIncrementalCleanupSubroutine(cfg, prog, relations) ==
  InBlock(SeqConcat([ k \in DOMAIN relations |-> cleanupRel(cfg, prog, relations[k]) ]), "subroutine")

\* ------------------------------------------------------------------------
\* translateProgram: the analyses it consults and the blocks of its SCC loop
\* ------------------------------------------------------------------------

\* every relation of the program, SCC by SCC in the iteration order ord
allRelations(prog, ord) == SeqConcat([ i \in DOMAIN prog.sccs |-> ord[i] ])

\* the relations the clauses with a head in scc depend on
predecessors(prog, scc) ==
  UNION { Range(prog.clauses[k].atoms) \cup Range(prog.clauses[k].negs) :
            k \in { n \in DOMAIN prog.clauses : prog.clauses[n].head \in scc } }

\* the relations with a clause outside scc that depends on r
hasExternSuccessor(prog, scc, r) ==
  \E k \in DOMAIN prog.clauses :
    /\ prog.clauses[k].head \notin scc
    /\ r \in Range(prog.clauses[k].atoms) \cup Range(prog.clauses[k].negs)

internIns(prog, ord, i) == SelectSeq(ord[i], LAMBDA r : prog.rels[r].input)
internOuts(prog, ord, i) == SelectSeq(ord[i], LAMBDA r : prog.rels[r].output)
externOutPreds(prog, ord, i) ==
  SelectSeq(allRelations(prog, ord),
            LAMBDA r : r \notin prog.sccs[i] /\ r \in predecessors(prog, prog.sccs[i]) /\ prog.rels[r].output)
externNonOutPreds(prog, ord, i) ==
  SelectSeq(allRelations(prog, ord),
            LAMBDA r : r \notin prog.sccs[i] /\ r \in predecessors(prog, prog.sccs[i]) /\ ~prog.rels[r].output)
internNonOutsWithExternSuccs(prog, ord, i) ==
  SelectSeq(ord[i], LAMBDA r : ~prog.rels[r].output /\ hasExternSuccessor(prog, prog.sccs[i], r))
internExps(prog, ord, i) == SelectSeq(allRelations(prog, ord), LAMBDA r : r \in prog.expired[i])

\* a load into the relation itself in every mode
makeRamLoadIntoRelation(cfg, relation) ==
  InRel(<< RamLoad(translateRelation(relation, "")) >>, relation)

\* makeRamLoad: into diff_plus when incremental, into the relation otherwise
makeRamLoad(cfg, relation) ==
  InRel(<< RamLoad(IF cfg.incremental THEN translateDiffPlusRelation(relation)
                   ELSE translateRelation(relation, "")) >>, relation)
makeRamStore(relation) == InRel(<< RamStore(translateRelation(relation, "")) >>, relation)
makeRamDrop(relation) == InRel(<< RamDrop(translateRelation(relation, "")) >>, relation)

\* the Creates of one member
createsOf(cfg, isRecursive, relation) ==
  InRel(
  << RamCreate(translateRelation(relation, "")) >>
  \o (IF cfg.incremental THEN
  << RamCreate(translateDiffMinusRelation(relation)),
     RamCreate(translateDiffMinusAppliedRelation(relation)),
     RamCreate(translateDiffMinusCountRelation(relation)),
     RamCreate(translateDiffPlusRelation(relation)),
     RamCreate(translateDiffPlusAppliedRelation(relation)),
     RamCreate(translateDiffPlusCountRelation(relation)),
     RamCreate(translateDiffAppliedRelation(relation)) >> ELSE << >>)
  \o (IF isRecursive THEN
  << RamCreate(translateDeltaRelation(relation)),
     RamCreate(translateNewRelation(relation)) >> ELSE << >>)
  \o (IF isRecursive /\ cfg.incremental THEN
  << RamCreate(translatePreviousIndexedRelation(relation)),
     RamCreate(translateNewDiffPlusRelation(relation)),
     RamCreate(translateNewDiffMinusRelation(relation)),
     RamCreate(translateDeltaDiffMinusAppliedRelation(relation)),
     RamCreate(translateDeltaDiffMinusCountRelation(relation)),
     RamCreate(translateDeltaDiffPlusCountRelation(relation)),
     RamCreate(translateTemporaryDeltaDiffAppliedRelation(relation)),
     RamCreate(translateDeltaDiffAppliedRelation(relation)) >> ELSE << >>), relation)

\* the merges that seed the applied and count variants of one relation
seedMerges(relation) ==
  InRel(
  << RamMerge(translateDiffPlusAppliedRelation(relation), translateRelation(relation, "")),
     RamMerge(translateDiffPlusAppliedRelation(relation), translateDiffPlusRelation(relation)),
     RamMerge(translateDiffMinusAppliedRelation(relation), translateRelation(relation, "")),
     RamMerge(translateDiffMinusAppliedRelation(relation), translateDiffMinusRelation(relation)),
     RamMerge(translateDiffAppliedRelation(relation), translateRelation(relation, "")),
     RamMerge(translateDiffAppliedRelation(relation), translateDiffMinusRelation(relation)),
     RamMerge(translateDiffAppliedRelation(relation), translateDiffPlusRelation(relation)),
     RamMerge(translateDiffPlusCountRelation(relation), translateDiffPlusRelation(relation)),
     RamSemiMerge(translateDiffPlusCountRelation(relation), translateDiffMinusAppliedRelation(relation), ""),
     RamMerge(translateDiffMinusCountRelation(relation), translateDiffMinusRelation(relation)),
     RamSemiMerge(translateDiffMinusCountRelation(relation), translateDiffPlusAppliedRelation(relation), "") >>,
  relation)

createBlock(cfg, prog, ord, i) ==
  SeqConcat([ m \in DOMAIN ord[i] |-> createsOf(cfg, prog.rec[i], ord[i][m]) ])

loadBlock(cfg, prog, ord, i) ==
  LET ins == internIns(prog, ord, i)
      eo == externOutPreds(prog, ord, i)
      en == externNonOutPreds(prog, ord, i)
  IN  SeqConcat([ m \in DOMAIN ins |-> makeRamLoad(cfg, ins[m]) ])
      \o (IF cfg.engine
          THEN SeqConcat([ m \in DOMAIN eo |-> makeRamLoad(cfg, eo[m]) ])
               \o SeqConcat([ m \in DOMAIN en |-> makeRamLoad(cfg, en[m]) ])
          ELSE << >>)

seedBlock(cfg, prog, ord, i) ==
  LET ins == internIns(prog, ord, i)
  IN  IF cfg.incremental /\ prog.rec[i]
      THEN SeqConcat([ m \in DOMAIN ins |-> seedMerges(ins[m]) ])
      ELSE << >>

computeBlock(cfg, prog, ord, i, indexOfScc) ==
  IF ~prog.rec[i]
  THEN InRel(translateNonRecursiveRelation(cfg, prog, ord[i][1]), ord[i][1])
  ELSE translateRecursiveRelation(cfg, prog, ord[i], indexOfScc)

mergeBlock(cfg, prog, ord, i) ==
  IF cfg.incremental /\ ~prog.rec[i]
  THEN SeqConcat([ m \in DOMAIN ord[i] |-> seedMerges(ord[i][m]) ])
  ELSE << >>

\* a store block that drops a relation before it stores it
storeBlockAfterDrop(cfg, prog, ord, i) ==
  makeRamDrop(ord[i][1]) \o makeRamStore(ord[i][1])

\* Stores of the output relations in every mode
storeBlockEveryMode(cfg, prog, ord, i) ==
  LET ns == internNonOutsWithExternSuccs(prog, ord, i)
      outs == internOuts(prog, ord, i)
  IN  (IF cfg.engine THEN SeqConcat([ m \in DOMAIN ns |-> makeRamStore(ns[m]) ]) ELSE << >>)
      \o SeqConcat([ m \in DOMAIN outs |-> makeRamStore(outs[m]) ])

storeBlock(cfg, prog, ord, i) ==
  LET ns == internNonOutsWithExternSuccs(prog, ord, i)
      outs == internOuts(prog, ord, i)
  IN  (IF cfg.engine THEN SeqConcat([ m \in DOMAIN ns |-> makeRamStore(ns[m]) ]) ELSE << >>)
      \o (IF ~cfg.incremental THEN SeqConcat([ m \in DOMAIN outs |-> makeRamStore(outs[m]) ]) ELSE << >>)

dropBlock(cfg, prog, ord, i) ==
  LET eo == externOutPreds(prog, ord, i)
      en == externNonOutPreds(prog, ord, i)
      exps == internExps(prog, ord, i)
  IN  IF ~cfg.provenance /\ ~cfg.incremental
      THEN IF cfg.engine
           THEN SeqConcat([ m \in DOMAIN ord[i] |-> makeRamDrop(ord[i][m]) ])
                \o SeqConcat([ m \in DOMAIN eo |-> makeRamDrop(eo[m]) ])
                \o SeqConcat([ m \in DOMAIN en |-> makeRamDrop(en[m]) ])
           ELSE SeqConcat([ m \in DOMAIN exps |-> makeRamDrop(exps[m]) ])
      ELSE << >>

\* in the last stratum of an incremental program: the call of the cleanup
\* subroutine, then the Stores of the output relations of every SCC
cleanupCall == << St("CallSubroutine", "", "incremental_cleanup", "") >>

cleanupStores(prog, ord) ==
  SeqConcat([ k \in DOMAIN prog.sccs |->
    LET outs == internOuts(prog, ord, k)
    IN  SeqConcat([ m \in DOMAIN outs |-> makeRamStore(outs[m]) ]) ])

\* ------------------------------------------------------------------------
\* State
\* ------------------------------------------------------------------------

VARIABLES
  cfg,          \* Global::config()
  prog,         \* the translation unit
  ord,          \* per SCC: the order in which its set of relations is iterated
  at,           \* translateProgram: the block of the SCC loop it is about to run
  indexOfScc,   \* translateProgram: index of the stratum under construction
  current,      \* translateProgram: the statements of that stratum so far
  res,          \* translateProgram: the strata appended so far
  ramMain,      \* ramProg: the main program once set
  exitSubs,     \* ramProg: the exit subroutines, by name
  cleanupSub,   \* ramProg: the body of incremental_cleanup
  ramRelations, \* ramProg: the relation table, name -> arity and attribute names
  pc,           \* run: index of the next statement of the main program
  spc,          \* run: index of the next statement of the subroutine (0: none)
  iter,         \* run: the iteration number of the running loop
  store,        \* run: existing relations -> iteration stamps of their rows
  epoch,        \* run: how many times the main program has been started
  obs,          \* run: what the last step did (for the statements about it)
  cleared,      \* run: relations cleared since the current iteration began
  stored,       \* run: relations stored in this epoch
  cleanupRan,   \* run: incremental_cleanup has run in this epoch
  ann,          \* IncrementalTransformer::transform: the AST and the position in its loops
  mangled,      \* the name mangler: the names it was asked for, with its answers
  ct,           \* ClauseTranslator::translateClause: the clause, the calls and the query
  cnt           \* the loop over the clauses of a relation: the count annotations of a head

vars == << cfg, prog, ord, at, indexOfScc, current, res, ramMain, exitSubs, cleanupSub,
           ramRelations, pc, spc, iter, store, epoch, obs, cleared, stored, cleanupRan, ann,
           mangled, ct, cnt >>

transVars == << at, indexOfScc, current, res, ramMain, exitSubs, cleanupSub, ramRelations >>
runVars == << pc, spc, iter, store, epoch, obs, cleared, stored, cleanupRan >>
inputVars == << cfg, prog, ord, ann, mangled, ct, cnt >>

\* Global::config(): the options the translator reads, and the option sets
\* the model is run under
Plain == [incremental |-> FALSE, engine |-> FALSE, provenance |-> FALSE, compile |-> FALSE,
          profile |-> FALSE]
Configs ==
  { Plain,
    [Plain EXCEPT !.engine = TRUE],
    [Plain EXCEPT !.provenance = TRUE],
    [Plain EXCEPT !.provenance = TRUE, !.compile = TRUE],
    [Plain EXCEPT !.incremental = TRUE],
    [Plain EXCEPT !.incremental = TRUE, !.engine = TRUE] }

\* the same with profiling on.  The log statements profiling adds inside the
\* strata are not modelled, so profiling is on for the empty program only.
ProfileConfigs == { [ c EXCEPT !.profile = TRUE ] : c \in Configs }

Orders(p) == { o \in [DOMAIN p.sccs -> UNION { Perms(p.sccs[i]) : i \in DOMAIN p.sccs }] :
                 \A i \in DOMAIN p.sccs : o[i] \in Perms(p.sccs[i]) }

NoObs == [kind |-> "none", stmt |-> St("", "", "", ""), exited |-> FALSE, ret |-> 0, arg |-> 0,
          row |-> << >>, out |-> << >>]

Init ==
  /\ prog \in Programs \cup {ProgEmpty}
  /\ cfg \in IF prog = ProgEmpty THEN Configs \cup ProfileConfigs ELSE Configs
  /\ ord \in Orders(prog)
  /\ at = "create"
  /\ indexOfScc = 0
  /\ current = << >>
  /\ res = << >>
  /\ ramMain = << >>
  /\ exitSubs = {}
  /\ cleanupSub = << >>
  /\ ramRelations = [ n \in {} |-> 0 ]
  /\ pc = 0
  /\ spc = 0
  /\ iter = 0
  /\ store = [ n \in {} |-> {} ]
  /\ epoch = 0
  /\ obs = NoObs
  /\ cleared = {}
  /\ stored = {}
  /\ cleanupRan = FALSE
  /\ ann = [ at |-> "idle" ]   \* the annotator has its own specification below
  /\ mangled = << >>           \* and so has the name mangler
  /\ ct = [ at |-> "idle" ]    \* and the translator of clauses with arguments
  /\ cnt = [ at |-> "idle" ]   \* and the classification of the rules by their counts

\* ------------------------------------------------------------------------
\* translateProgram: one action per block of the loop over the SCCs
\* ------------------------------------------------------------------------

\* the SCC at the 0-based index of the source
sccAt == indexOfScc + 1
numSCCs == Len(prog.sccs)

appendStmt(block, name) == current \o InScc(InBlock(block, name), indexOfScc)

\* the main program of a RamProgram as it is constructed, and as it is when
\* translateProgram returns because the SCC graph is empty
emptyMain(c) == << >>

\* the empty SCC graph: translateProgram returns at once
T_Return ==
  /\ at = "create" /\ numSCCs = 0
  /\ ramMain' = emptyMain(cfg)
  /\ at' = "done"
  /\ pc' = 1
  /\ epoch' = 1
  /\ UNCHANGED << indexOfScc, current, res, exitSubs, cleanupSub, ramRelations >>
  /\ UNCHANGED << inputVars, spc, iter, store, obs, cleared, stored, cleanupRan >>

T_Create ==
  /\ at = "create" /\ numSCCs # 0
  /\ current' = appendStmt(createBlock(cfg, prog, ord, sccAt), "create")
  /\ ramRelations' = referencesOf(cfg, prog, ramRelations, createBlock(cfg, prog, ord, sccAt))
  /\ at' = "load"
  /\ UNCHANGED << indexOfScc, res, ramMain, exitSubs, cleanupSub >>
  /\ UNCHANGED << inputVars, runVars >>

T_Load ==
  /\ at = "load"
  /\ current' = appendStmt(loadBlock(cfg, prog, ord, sccAt), "load")
  /\ ramRelations' = referencesOf(cfg, prog, ramRelations, loadBlock(cfg, prog, ord, sccAt))
  /\ at' = "seed"
  /\ UNCHANGED << indexOfScc, res, ramMain, exitSubs, cleanupSub >>
  /\ UNCHANGED << inputVars, runVars >>

T_Seed ==
  /\ at = "seed"
  /\ current' = appendStmt(seedBlock(cfg, prog, ord, sccAt), "seed")
  /\ ramRelations' = referencesOf(cfg, prog, ramRelations, seedBlock(cfg, prog, ord, sccAt))
  /\ at' = "compute"
  /\ UNCHANGED << indexOfScc, res, ramMain, exitSubs, cleanupSub >>
  /\ UNCHANGED << inputVars, runVars >>

\* the body statement; translateRecursiveRelation also registers the exit
\* subroutine of the SCC
T_Compute ==
  /\ at = "compute"
  /\ current' = appendStmt(computeBlock(cfg, prog, ord, sccAt, indexOfScc), "compute")
  /\ ramRelations' = referencesOf(cfg, prog,
                       IF prog.rec[sccAt]
                       THEN translateRelations(cfg, prog, ramRelations,
                              UNION { { translateRelation(r, ""), translateDeltaRelation(r),
                                        translateNewRelation(r) } : r \in prog.sccs[sccAt] })
                       ELSE ramRelations,
                       computeBlock(cfg, prog, ord, sccAt, indexOfScc))
  /\ exitSubs' = IF prog.rec[sccAt] /\ cfg.incremental
                 THEN exitSubs \cup { [ name |-> exitSubroutineName(indexOfScc),
                                        body |-> makeIncrementalExitCondSubroutine(maxIterRelation(indexOfScc)) ] }
                 ELSE exitSubs
  /\ at' = "merge"
  /\ UNCHANGED << indexOfScc, res, ramMain, cleanupSub >>
  /\ UNCHANGED << inputVars, runVars >>

T_Merge ==
  /\ at = "merge"
  /\ current' = appendStmt(mergeBlock(cfg, prog, ord, sccAt), "merge")
  /\ ramRelations' = referencesOf(cfg, prog, ramRelations, mergeBlock(cfg, prog, ord, sccAt))
  /\ at' = "store"
  /\ UNCHANGED << indexOfScc, res, ramMain, exitSubs, cleanupSub >>
  /\ UNCHANGED << inputVars, runVars >>

T_Store ==
  /\ at = "store"
  /\ current' = appendStmt(storeBlock(cfg, prog, ord, sccAt), "store")
  /\ ramRelations' = referencesOf(cfg, prog, ramRelations, storeBlock(cfg, prog, ord, sccAt))
  /\ at' = "drop"
  /\ UNCHANGED << indexOfScc, res, ramMain, exitSubs, cleanupSub >>
  /\ UNCHANGED << inputVars, runVars >>

T_Drop ==
  /\ at = "drop"
  /\ current' = appendStmt(dropBlock(cfg, prog, ord, sccAt), "drop")
  /\ ramRelations' = referencesOf(cfg, prog, ramRelations, dropBlock(cfg, prog, ord, sccAt))
  /\ at' = "cleanup"
  /\ UNCHANGED << indexOfScc, res, ramMain, exitSubs, cleanupSub >>
  /\ UNCHANGED << inputVars, runVars >>

T_Cleanup ==
  /\ at = "cleanup"
  /\ current' = IF cfg.incremental /\ indexOfScc = numSCCs - 1
                THEN current \o InScc(InBlock(cleanupCall, "cleanup"), indexOfScc)
                             \o InScc(InBlock(cleanupStores(prog, ord), "cleanupStore"), indexOfScc)
                ELSE current
  /\ ramRelations' = IF cfg.incremental /\ indexOfScc = numSCCs - 1
                     THEN referencesOf(cfg, prog, ramRelations, cleanupStores(prog, ord))
                     ELSE ramRelations
  /\ at' = "stratum"
  /\ UNCHANGED << indexOfScc, res, ramMain, exitSubs, cleanupSub >>
  /\ UNCHANGED << inputVars, runVars >>

\* the stratum is appended to the program and the next SCC is taken up
T_Stratum ==
  /\ at = "stratum"
  /\ res' = res \o current
  /\ current' = << >>
  /\ indexOfScc' = indexOfScc + 1
  /\ at' = IF indexOfScc + 1 < numSCCs THEN "create" ELSE "setMain"
  /\ UNCHANGED << ramMain, exitSubs, cleanupSub, ramRelations >>
  /\ UNCHANGED << inputVars, runVars >>

\* setMain, then the registration of incremental_cleanup
T_SetMain ==
  /\ at = "setMain"
  /\ ramMain' = IF cfg.profile THEN << RamLogTimer >> \o res ELSE res
  /\ res' = << >>
  /\ cleanupSub' = IF cfg.incremental
                   THEN makeIncrementalCleanupSubroutine(cfg, prog, allRelations(prog, ord))
                   ELSE << >>
  /\ ramRelations' = IF cfg.incremental
                     THEN referencesOf(cfg, prog, ramRelations,
                            makeIncrementalCleanupSubroutine(cfg, prog, allRelations(prog, ord)))
                     ELSE ramRelations
  /\ at' = "done"
  /\ pc' = 1
  /\ epoch' = 1
  /\ UNCHANGED << indexOfScc, current, exitSubs >>
  /\ UNCHANGED << inputVars, spc, iter, store, obs, cleared, stored, cleanupRan >>

Translate ==
  \/ T_Return \/ T_Create \/ T_Load \/ T_Seed \/ T_Compute \/ T_Merge
  \/ T_Store \/ T_Drop \/ T_Cleanup \/ T_Stratum \/ T_SetMain

TranslateSpec == Init /\ [][Translate]_vars

\* the translator alone, on programs whose rules have several atoms and
\* negations
RulePrograms == { ProgJoin, ProgMutual, ProgNeg, ProgEmpty }

RuleInit ==
  /\ prog \in RulePrograms
  /\ cfg \in Configs
  /\ ord \in Orders(prog)
  /\ at = "create"
  /\ indexOfScc = 0
  /\ current = << >>
  /\ res = << >>
  /\ ramMain = << >>
  /\ exitSubs = {}
  /\ cleanupSub = << >>
  /\ ramRelations = [ n \in {} |-> 0 ]
  /\ pc = 0
  /\ spc = 0
  /\ iter = 0
  /\ store = [ n \in {} |-> {} ]
  /\ epoch = 0
  /\ obs = NoObs
  /\ cleared = {}
  /\ stored = {}
  /\ cleanupRan = FALSE
  /\ ann = [ at |-> "idle" ]
  /\ mangled = << >>
  /\ ct = [ at |-> "idle" ]
  /\ cnt = [ at |-> "idle" ]

RuleSpec == RuleInit /\ [][Translate]_vars

\* ------------------------------------------------------------------------
\* Running the emitted program.  A relation is represented by the largest
\* iteration stamp of its rows (by the empty set when it has no row); the meaning of the statements is that of
\* the RAM evaluator, which is not part of the translator.
\* ------------------------------------------------------------------------

Running == at = "done" /\ pc \in DOMAIN ramMain

\* the statement about to run
Cur == IF spc > 0 THEN cleanupSub[spc] ELSE ramMain[pc]

\* the position after the current statement
NextPc == IF spc > 0 /\ spc < Len(cleanupSub) THEN pc ELSE pc + 1
NextSpc == IF spc > 0 /\ spc < Len(cleanupSub) THEN spc + 1 ELSE 0

\* of the stamps of a relation only the largest is kept
top(v) == IF v = {} THEN {} ELSE { MaxOf(v) }

ValIn(st, r) == IF r \in DOMAIN st THEN st[r] ELSE {}
PutIn(st, r, v) == [ n \in DOMAIN st \cup {r} |-> IF n = r THEN top(v) ELSE st[n] ]

Val(r) == ValIn(store, r)
Put(r, v) == PutIn(store, r, v)

Did(s) == [NoObs EXCEPT !.kind = s.op, !.stmt = s]

Go(p, sp, it, st, ob, cl, sd, cr) ==
  /\ pc' = p
  /\ spc' = sp
  /\ iter' = it
  /\ store' = st
  /\ obs' = ob
  /\ cleared' = cl
  /\ stored' = sd
  /\ cleanupRan' = cr
  /\ UNCHANGED << inputVars, transVars, epoch >>

\* the statements whose effect depends neither on the rows nor on a
\* condition.  Create leaves an existing relation as it is; Merge adds the
\* rows of the source; SemiMerge and PositiveMerge add those rows of the
\* source that pass their filter, taken here to be all of them.
Straight == { "Create", "Merge", "SemiMerge", "PositiveMerge", "Clear", "Swap", "Drop" }

execStatement(st, s) ==
  CASE s.op = "Create" -> IF s.dst \in DOMAIN st THEN st ELSE PutIn(st, s.dst, {})
    [] s.op \in { "Merge", "SemiMerge", "PositiveMerge" } ->
         PutIn(st, s.dst, ValIn(st, s.dst) \cup ValIn(st, s.src))
    [] s.op = "Clear" -> PutIn(st, s.dst, {})
    [] s.op = "Swap" ->
         [ n \in DOMAIN st \cup {s.dst, s.src} |->
             IF n = s.dst THEN ValIn(st, s.src) ELSE IF n = s.src THEN ValIn(st, s.dst) ELSE st[n] ]
    [] s.op = "Drop" -> [ n \in DOMAIN st \ {s.dst} |-> st[n] ]
    [] OTHER -> st

\* a maximal run of such statements, from position p of code, is one step
\* (comparing the store with itself makes it a table of values before the
\* next statement reads it)
RECURSIVE runStraight(_, _, _, _)
runStraight(code, p, st, cl) ==
  IF p > Len(code) \/ code[p].op \notin Straight \/ st # st
  THEN [ pos |-> p, store |-> st, cleared |-> cl ]
  ELSE runStraight(code, p + 1, execStatement(st, code[p]),
                   IF code[p].op = "Clear" THEN cl \cup {code[p].dst} ELSE cl)

X_Straight ==
  /\ Running /\ Cur.op \in Straight
  /\ LET code == IF spc > 0 THEN cleanupSub ELSE ramMain
         from == IF spc > 0 THEN spc ELSE pc
     IN  \E r \in { runStraight(code, from, store, cleared) } :
           Go(IF spc = 0 THEN r.pos ELSE IF r.pos > Len(code) THEN pc + 1 ELSE pc,
              IF spc = 0 \/ r.pos > Len(code) THEN 0 ELSE r.pos,
              iter, r.store, Did(code[r.pos - 1]), r.cleared, stored, cleanupRan)

\* a fact file holds no rows or rows of iteration 0
X_Load ==
  /\ Running /\ Cur.op = "Load"
  /\ \E rows \in { {}, {0} } :
       Go(NextPc, NextSpc, iter, Put(Cur.dst, Val(Cur.dst) \cup rows),
          Did(Cur), cleared, stored, cleanupRan)

X_Store ==
  /\ Running /\ Cur.op = "Store"
  /\ Go(NextPc, NextSpc, iter, store, Did(Cur), cleared, stored \cup {Cur.src}, cleanupRan)

\* the stamp of a row a rule derives: the iteration number in the loop of an
\* incremental program, 0 outside a loop; without iteration column the stamp
\* only tells the rows of different rounds apart
headStamp(s) ==
  IF s.part # "body" THEN 0
  ELSE IF cfg.incremental THEN iter
  ELSE IF arityOf(cfg, prog, s.rel) = 0 THEN 0
  ELSE iter + 1

\* a rule can derive a row when every body atom's relation is non-empty and
\* every other emptiness check finds its relation empty; whether it does
\* depends on the rows.  In the loop derivation stops at MaxIter.
canFire(s) ==
  /\ \A r \in s.ne : Val(r) # {}
  /\ \A r \in s.ed \ s.ne : Val(r) = {}
  /\ s.part = "body" => iter < MaxIter

X_Query ==
  /\ Running /\ Cur.op = "Query" /\ Cur.blk # "subroutine"
  /\ \E fire \in BOOLEAN :
       /\ fire => canFire(Cur)
       /\ Go(NextPc, NextSpc, iter,
             IF fire THEN Put(Cur.dst, Val(Cur.dst) \cup {headStamp(Cur)}) ELSE store,
             [Did(Cur) EXCEPT !.exited = fire], cleared, stored, cleanupRan)

\* nested MAX aggregates: nothing is projected when a member is empty
X_MaxQuery ==
  /\ Running /\ Cur.op = "MaxQuery"
  /\ Go(NextPc, NextSpc, iter,
        IF \A r \in Cur.rd : Val(r) # {}
        THEN Put(Cur.dst, Val(Cur.dst) \cup { MaxOf(UNION { Val(r) : r \in Cur.rd }) })
        ELSE store,
        Did(Cur), cleared, stored, cleanupRan)

\* the comparison of a RamConstraint
holds(op, a, b) == IF op = "GE" THEN a >= b ELSE IF op = "GT" THEN a > b ELSE FALSE

\* running an exit subroutine on an argument: the value it returns
callExit(name, arg) ==
  LET sub == (CHOOSE e \in exitSubs : e.name = name).body
  IN  IF \E t \in Val(sub.scan) : holds(sub.constraint, t, arg)
      THEN sub.returnFalse ELSE sub.returnTrue

\* the value of the condition of an Exit statement
exitHolds(s) ==
  /\ \A r \in s.ed : Val(r) = {}
  /\ s.src # "" => callExit(s.src, iter) # 0

LoopEndAfter(p) ==
  CHOOSE q \in DOMAIN ramMain :
    /\ q > p /\ ramMain[q].op = "LoopEnd"
    /\ \A k \in (p + 1)..(q - 1) : ramMain[k].op # "LoopEnd"

LoopBeginBefore(p) ==
  CHOOSE q \in DOMAIN ramMain :
    /\ q < p /\ ramMain[q].op = "LoopBegin"
    /\ \A k \in (q + 1)..(p - 1) : ramMain[k].op # "LoopBegin"

\* RamLoop: the body, the clear table, the exit, the update table, repeated
X_LoopBegin ==
  /\ Running /\ Cur.op = "LoopBegin"
  /\ Go(pc + 1, 0, 0, store, Did(Cur), {}, stored, cleanupRan)

X_Exit ==
  /\ Running /\ Cur.op = "Exit"
  /\ Go(IF exitHolds(Cur) THEN LoopEndAfter(pc) + 1 ELSE pc + 1, 0, iter, store,
        [Did(Cur) EXCEPT !.exited = exitHolds(Cur),
                         !.arg = iter,
                         !.ret = IF Cur.src # "" THEN callExit(Cur.src, iter) ELSE 1],
        cleared, stored, cleanupRan)

X_LoopEnd ==
  /\ Running /\ Cur.op = "LoopEnd"
  /\ Go(LoopBeginBefore(pc) + 1, 0, iter + 1, store, Did(Cur), {}, stored, cleanupRan)

\* RamExit(SubroutineCondition("incremental_cleanup"), false): the subroutine
\* runs, it returns no value, the stratum goes on
X_CallSubroutine ==
  /\ Running /\ Cur.op = "CallSubroutine" /\ spc = 0
  /\ Go(IF cleanupSub = << >> THEN pc + 1 ELSE pc, IF cleanupSub = << >> THEN 0 ELSE 1,
        iter, store, Did(Cur), cleared, stored, TRUE)

\* the rewrite of the cleanup: Scan(R, Project(R, values)); one row of the
\* relation is followed through the projection
evalProject(proj, row) ==
  [ i \in DOMAIN proj |-> IF proj[i].kind = "TupleElement" THEN row[proj[i].v + 1] ELSE proj[i].v ]

counts == { << 0, 1 >>, << 1, -1 >>, << 1, 1 >>, << -1, -1 >> }

rowsOf(s) ==
  { [ i \in 1..prog.rels[s.rel].arity |-> 100 + i ] \o << it, c[1], c[2] >> :
      it \in Val(s.dst), c \in counts }

X_Rewrite ==
  /\ Running /\ Cur.op = "Query" /\ Cur.blk = "subroutine"
  /\ \E row \in (IF rowsOf(Cur) = {} THEN { << >> } ELSE rowsOf(Cur)) :
       Go(NextPc, NextSpc, iter, store,
          [Did(Cur) EXCEPT !.row = row,
                           !.out = IF row = << >> THEN << >> ELSE evalProject(Cur.proj, row)],
          cleared, stored, cleanupRan)

\* the program is run again on the relations the last run left behind
NextEpoch ==
  /\ at = "done" /\ pc = Len(ramMain) + 1
  /\ cfg.incremental
  /\ epoch < MaxEpochs
  /\ epoch' = epoch + 1
  /\ pc' = 1 /\ spc' = 0 /\ iter' = 0
  /\ obs' = NoObs /\ cleared' = {} /\ stored' = {} /\ cleanupRan' = FALSE
  /\ UNCHANGED << inputVars, transVars, store >>

Run ==
  \/ X_Straight \/ X_Load \/ X_Store
  \/ X_Query \/ X_MaxQuery \/ X_LoopBegin \/ X_Exit \/ X_LoopEnd
  \/ X_CallSubroutine \/ X_Rewrite \/ NextEpoch

Next == Translate \/ Run

Spec == Init /\ [][Next]_vars

\* ------------------------------------------------------------------------
\* IncrementalTransformer::transform on an AST with arguments.  An argument
\* is a variable, an unnamed variable, a number, the iteration number or an
\* aggregator over atoms; a literal is an atom, a negated atom or a
\* constraint.
\* ------------------------------------------------------------------------

AstClause(head, body, id) == [head |-> head, body |-> body, id |-> id, made |-> "source"]

\* the source relations with their attributes, in the order of getRelations()
sourceAttributes ==
  [ r \in {"a", "b", "c"} |-> IF r = "c" THEN << >> ELSE << "x1" >> ]
originalRelations == << "a", "b", "c" >>

\* the clauses source programs are made of
\*   b(1).
\*   a(x) :- b(x).
\*   a(x) :- a(x), b(x).
\*   a(x) :- a(x), !b(x).
\*   c() :- b(x), x = count : { b(y) }.
\*   a(count : { b(y) }) :- b(x).
\*   a(x) :- b(count : { c() }).
SourceClauses ==
  LET x == AstVariable("x")
      bx == AstAtom("b", << x >>)
      ax == AstAtom("a", << x >>)
      countB == AstAggregator("y", << AstAtom("b", << AstVariable("y") >>) >>)
      countC == AstAggregator("", << AstAtom("c", << >>) >>)
  IN { [head |-> AstAtom("b", << AstNumberConstant(1) >>), body |-> << >>],
       [head |-> ax, body |-> << bx >>],
       [head |-> ax, body |-> << ax, bx >>],
       [head |-> ax, body |-> << ax, AstNegation(bx) >>],
       [head |-> AstAtom("c", << >>), body |-> << bx, AstBinaryConstraint("EQ", x, countB) >>],
       [head |-> AstAtom("a", << countB >>), body |-> << bx >>],
       [head |-> ax, body |-> << AstAtom("b", << countC >>) >>] }

\* the largest number of clauses of a source program
MaxClauses == 2

SourcePrograms ==
  UNION { { [ i \in 1..n |-> AstClause(s[i].head, s[i].body, i) ] : s \in [1..n -> SourceClauses] }
          : n \in 1..MaxClauses }

\* addUnnamedVariables with an argument for node: the atoms of an aggregator
\* get two unnamed variables each, unless the aggregator's target is the
\* variable @current_epoch_value
addUnnamedVariables(node) ==
  IF node.kind = "aggregator" /\ node.name # "@current_epoch_value"
  THEN [ node EXCEPT !.body = [ j \in DOMAIN node.body |->
           [ node.body[j] EXCEPT !.args = @ \o << AstUnnamedVariable, AstUnnamedVariable >> ] ] ]
  ELSE node

\* lit->apply(addUnnamedVariables()): the mapper is applied to the children
\* of the literal; the child of a negation is its atom, which gets two
\* unnamed variables before its own arguments are visited
applyMapper(lit) ==
  LET mapped == [ j \in DOMAIN lit.args |-> addUnnamedVariables(lit.args[j]) ]
  IN  IF lit.lit = "negation"
      THEN [ lit EXCEPT !.args = mapped \o << AstUnnamedVariable, AstUnnamedVariable >> ]
      ELSE [ lit EXCEPT !.args = mapped ]

\* the loop over the body literals of a cloned clause: the mapper, then the
\* three variables of literal i when it is an atom
annotateBody(body) ==
  [ i \in DOMAIN body |->
      LET lit == applyMapper(body[i])
          n == ToString(i - 1)
      IN  IF lit.lit = "atom"
          THEN [ lit EXCEPT !.args = @ \o << AstVariable("@iteration_" \o n),
                                            AstVariable("@prev_count_" \o n),
                                            AstVariable("@current_count_" \o n) >> ]
          ELSE lit ]

\* the relations the atoms of a clause's body name, nested atoms included
bodyRelations(clause) ==
  { clause.body[i].name : i \in { j \in DOMAIN clause.body : clause.body[j].lit # "constraint" } }
    \cup UNION { UNION { { a.body[k].name : k \in DOMAIN a.body }
                         : a \in Range(clause.body[i].args) } : i \in DOMAIN clause.body }

RECURSIVE transitiveClosure(_)
transitiveClosure(E) ==
  LET E2 == E \cup { << p[1][1], p[2][2] >> : p \in { q \in E \X E : q[1][2] = q[2][1] } }
  IN  IF E2 = E THEN E ELSE transitiveClosure(E2)

\* SCCGraph: two relations are in one SCC when each depends on the other
sameSCC(clauses, r, s) ==
  LET E == transitiveClosure(UNION { { << clauses[i].head.name, n >> : n \in bodyRelations(clauses[i]) }
                                     : i \in DOMAIN clauses })
  IN  r = s \/ (<< r, s >> \in E /\ << s, r >> \in E)

\* the body atoms whose relation is in the SCC of the head (bodyLevels)
bodyLevels(clauses, clause) ==
  { i \in DOMAIN clause.body :
      clause.body[i].lit = "atom" /\ sameSCC(clauses, clause.head.name, clause.body[i].name) }

\* RecursiveClauses::recursive
recursiveClause(clauses, clause) == bodyLevels(clauses, clause) # {}

\* AstClause::isFact: no body literal and no aggregator in the head
isFact(clause) ==
  clause.body = << >> /\ \A j \in DOMAIN clause.head.args : clause.head.args[j].kind # "aggregator"

\* the first of the three arguments added to the head of a made clause
headIteration(clauses, clause) ==
  IF recursiveClause(clauses, clause) THEN AstIterationNumber ELSE AstNumberConstant(0)

\* the constraint that compares the iteration of the body atoms of the SCC
levelConstraint(clauses, clause) ==
  IF bodyLevels(clauses, clause) # {}
  THEN << AstBinaryConstraint("EQ", AstVariable("max(@iteration)"), AstVariable("iteration-1")) >>
  ELSE << >>

\* makeNegativeUpdateClause with the counts of a positive update
makeNegativeUpdateClauseAsInsertion(clauses, clause) ==
  [ clause EXCEPT
      !.made = "negative",
      !.head.args = @ \o << headIteration(clauses, clause), AstNumberConstant(0), AstNumberConstant(1) >>,
      !.body = annotateBody(@) ]

makeNegativeUpdateClause(clauses, clause) ==
  [ clause EXCEPT
      !.made = "negative",
      !.head.args = @ \o << headIteration(clauses, clause), AstNumberConstant(1), AstNumberConstant(-1) >>,
      !.body = annotateBody(@)
                 \o << AstBinaryConstraint("GT", AstVariable("min(@prev_count)"), AstNumberConstant(0)) >>
                 \o levelConstraint(clauses, clause)
                 \o << AstBinaryConstraint("LE", AstVariable("min(@current_count)"), AstNumberConstant(0)) >> ]

makePositiveUpdateClause(clauses, clause) ==
  [ clause EXCEPT
      !.made = "positive",
      !.head.args = @ \o << headIteration(clauses, clause), AstNumberConstant(0), AstNumberConstant(1) >>,
      !.body = annotateBody(@)
                 \o << AstBinaryConstraint("GT", AstVariable("min(@current_count)"), AstNumberConstant(0)) >>
                 \o levelConstraint(clauses, clause)
                 \o << AstBinaryConstraint("LE", AstVariable("min(@prev_count)"), AstNumberConstant(0)) >> ]

makePositiveGenerationClause(clauses, clause) ==
  [ clause EXCEPT
      !.made = "generation",
      !.head.args = @ \o << headIteration(clauses, clause), AstNumberConstant(1), AstNumberConstant(1) >>,
      !.body = annotateBody(@)
                 \o << AstBinaryConstraint("GT", AstVariable("min(@current_count)"), AstNumberConstant(0)) >>
                 \o levelConstraint(clauses, clause) ]

\* clause->getHead()->apply(addUnnamedVariables())
annotateHead(clause) ==
  [ clause EXCEPT !.head.args = [ j \in DOMAIN @ |-> addUnnamedVariables(@[j]) ] ]

\* the annotator is not running
NoAnn ==
  [ at |-> "idle", attributes |-> sourceAttributes, clauses |-> << >>, r |-> 0,
    todo |-> << >>, originalClauses |-> {}, processed |-> << >> ]

AnnotInit ==
  /\ cfg = [Plain EXCEPT !.incremental = TRUE]
  /\ prog = ProgCopy
  /\ ord \in Orders(prog)
  /\ at = "create"
  /\ indexOfScc = 0
  /\ current = << >>
  /\ res = << >>
  /\ ramMain = << >>
  /\ exitSubs = {}
  /\ cleanupSub = << >>
  /\ ramRelations = [ n \in {} |-> 0 ]
  /\ pc = 0
  /\ spc = 0
  /\ iter = 0
  /\ store = [ n \in {} |-> {} ]
  /\ epoch = 0
  /\ obs = NoObs
  /\ cleared = {}
  /\ stored = {}
  /\ cleanupRan = FALSE
  /\ \E p \in SourcePrograms :
       ann = [ NoAnn EXCEPT !.at = "attributes", !.clauses = p,
                            !.processed = [ i \in DOMAIN p |-> 0 ] ]
  /\ mangled = << >>
  /\ ct = [ at |-> "idle" ]
  /\ cnt = [ at |-> "idle" ]

annUnchanged == UNCHANGED << cfg, prog, ord, transVars, runVars, mangled, ct, cnt >>

\* the first loop: three attributes are added to every relation
A_AddAttributes ==
  /\ ann.at = "attributes"
  /\ ann' = [ ann EXCEPT
       !.attributes = [ r \in DOMAIN @ |-> @[r] \o << "@iteration", "@prev_count", "@current_count" >> ],
       !.at = "relation", !.r = 1 ]
  /\ annUnchanged

\* the second loop takes up a relation: relation->getClauses() is a vector of
\* the clauses the relation has at this moment
A_Relation ==
  /\ ann.at = "relation" /\ ann.r <= Len(originalRelations)
  /\ ann' = [ ann EXCEPT
       !.todo = SelectSeq([ i \in DOMAIN ann.clauses |-> i ],
                          LAMBDA i : ann.clauses[i].head.name = originalRelations[ann.r]),
       !.originalClauses = {},
       !.at = "clause" ]
  /\ annUnchanged

\* a fact: the head gets 0, 0, 1
A_Fact ==
  /\ ann.at = "clause" /\ ann.todo # << >>
  /\ LET k == Head(ann.todo)
         clause == annotateHead(ann.clauses[k])
     IN  /\ isFact(ann.clauses[k])
         /\ ann' = [ ann EXCEPT
              !.clauses[k] = [ clause EXCEPT !.head.args =
                                 @ \o << AstNumberConstant(0), AstNumberConstant(0), AstNumberConstant(1) >> ],
              !.processed[clause.id] = @ + 1,
              !.todo = Tail(@) ]
  /\ annUnchanged

\* a rule: the three made clauses are added, the rule is noted for removal
A_Rule ==
  /\ ann.at = "clause" /\ ann.todo # << >>
  /\ LET k == Head(ann.todo)
         clause == annotateHead(ann.clauses[k])
         clauses == [ ann.clauses EXCEPT ![k] = clause ]
     IN  /\ ~isFact(ann.clauses[k])
         /\ ann' = [ ann EXCEPT
              !.clauses = clauses \o << makeNegativeUpdateClause(clauses, clause),
                                        makePositiveUpdateClause(clauses, clause),
                                        makePositiveGenerationClause(clauses, clause) >>,
              !.originalClauses = @ \cup {k},
              !.processed[clause.id] = @ + 1,
              !.todo = Tail(@) ]
  /\ annUnchanged

\* the rules of the relation are removed, the next relation is taken up
A_RemoveClauses ==
  /\ ann.at = "clause" /\ ann.todo = << >>
  /\ ann' = [ ann EXCEPT
       !.clauses = SeqConcat([ i \in DOMAIN ann.clauses |->
                     IF i \in ann.originalClauses THEN << >> ELSE << ann.clauses[i] >> ]),
       !.originalClauses = {},
       !.r = @ + 1,
       !.at = "relation" ]
  /\ annUnchanged

A_Return ==
  /\ ann.at = "relation" /\ ann.r > Len(originalRelations)
  /\ ann' = [ ann EXCEPT !.at = "done" ]
  /\ annUnchanged

AnnotNext ==
  \/ A_AddAttributes \/ A_Relation \/ A_Fact \/ A_Rule \/ A_RemoveClauses \/ A_Return

AnnotSpec == AnnotInit /\ [][AnnotNext]_vars

\* ------------------------------------------------------------------------
\* The name mangler, called twice
\* ------------------------------------------------------------------------

MangleInit ==
  /\ Init
  /\ cfg = Plain /\ prog = ProgCopy

\* one call of the mangler: a relation name, a variant, and the name returned
M_Mangle ==
  /\ Len(mangled) < 2
  /\ \E rel \in IdentifierNames \cup MarkedNames, tag \in variantTags :
       mangled' = Append(mangled, [ rel |-> rel, tag |-> tag, name |-> mangle(rel, tag) ])
  /\ UNCHANGED << cfg, prog, ord, transVars, runVars, ann, ct, cnt >>

\* the two calls are compared
M_Compare ==
  /\ Len(mangled) = 2
  /\ mangled' = Append(mangled, [ rel |-> "", tag |-> "", name |->
                   IF mangled[1].name = mangled[2].name THEN "same" ELSE "different" ])
  /\ UNCHANGED << cfg, prog, ord, transVars, runVars, ann, ct, cnt >>

MangleNext == M_Mangle \/ M_Compare

MangleSpec == MangleInit /\ [][MangleNext]_vars

\* ------------------------------------------------------------------------
\* ClauseTranslator::translateClause on clauses with arguments.  The
\* operation of a query is a chain: every operation but the Project has one
\* nested operation, so the chain is kept as the sequence of its operations
\* from the outermost to the innermost.
\* ------------------------------------------------------------------------

Reverse(s) == [ i \in 1..Len(s) |-> s[Len(s) + 1 - i] ]

AstRecordInit(args) == [kind |-> "record", name |-> "", body |-> args]

\* no execution plan; a plan with an order for one version
NoPlan == [version |-> -1, order |-> << >>]
AstExecutionPlan(version, order) == [version |-> version, order |-> order]

\* expressions and conditions of the RAM
RamTupleElement(level, element) ==
  [e |-> "TupleElement", level |-> level, element |-> element, constant |-> ""]
RamNumber(constant) == [e |-> "Number", level |-> -1, element |-> -1, constant |-> constant]
RamUndefValue == [e |-> "UndefValue", level |-> -1, element |-> -1, constant |-> ""]

RamTrue == [c |-> "True", rel |-> "", values |-> << >>]
RamEmptinessCheck(rel) == [c |-> "EmptinessCheck", rel |-> rel, values |-> << >>]
RamNegationOfEmptinessCheck(rel) == [c |-> "Negation(EmptinessCheck)", rel |-> rel, values |-> << >>]
RamNegationOfExistenceCheck(rel, values) ==
  [c |-> "Negation(ExistenceCheck)", rel |-> rel, values |-> values]
RamConjunctionOfEQ(values) == [c |-> "Conjunction(EQ)", rel |-> "", values |-> values]
RamConstraintEQ(lhs, rhs) == [c |-> "Constraint(EQ)", rel |-> "", values |-> << lhs, rhs >>]

\* operations
RamFilter(cond) == [o |-> "Filter", cond |-> cond, rel |-> "", level |-> -1, values |-> << >>]
RamBreak(cond) == [o |-> "Break", cond |-> cond, rel |-> "", level |-> -1, values |-> << >>]
RamScan(rel, level) == [o |-> "Scan", cond |-> RamTrue, rel |-> rel, level |-> level, values |-> << >>]
RamUnpackRecord(level, ref, arity) ==
  [o |-> "UnpackRecord", cond |-> RamTrue, rel |-> "", level |-> level, values |-> << ref >>]
RamAggregate(rel, level, expr, cond) ==
  [o |-> "Aggregate", cond |-> cond, rel |-> rel, level |-> level, values |-> << expr >>]
RamProject(rel, values) == [o |-> "Project", cond |-> RamTrue, rel |-> rel, level |-> -1, values |-> values]
RamFact(rel, values) == [o |-> "Fact", cond |-> RamTrue, rel |-> rel, level |-> -1, values |-> values]

\* the names of the variables, in the order of a std::map keyed by name
variableNames == << "x", "y" >>

\* the atoms the bodies are made of:  r0(), r1(x), r1(_), r2(x,y), r2(x,1),
\* rr([x,y]), r2(x, count : r1(x)), r2(x, count : { r1(x), r0() }),
\* r2(x, count : { r1(x), x < 1 })
BodyAtoms ==
  { AstAtom("r0", << >>),
    AstAtom("r1", << AstVariable("x") >>),
    AstAtom("r1", << AstUnnamedVariable >>),
    AstAtom("r2", << AstVariable("x"), AstVariable("y") >>),
    AstAtom("r2", << AstVariable("x"), AstNumberConstant(1) >>),
    AstAtom("rr", << AstRecordInit(<< AstVariable("x"), AstVariable("y") >>) >>),
    AstAtom("r2", << AstVariable("x"),
                     AstAggregator("", << AstAtom("r1", << AstVariable("x") >>) >>) >>),
    AstAtom("r2", << AstVariable("x"),
                     AstAggregator("", << AstAtom("r1", << AstVariable("x") >>),
                                          AstAtom("r0", << >>) >>) >>),
    AstAtom("r2", << AstVariable("x"),
                     AstAggregator("", << AstAtom("r1", << AstVariable("x") >>),
                                          AstBinaryConstraint("LT", AstVariable("x"),
                                                              AstNumberConstant(1)) >>) >>) }

\* the largest number of atoms of a body
MaxAtoms == 2

\* the variables an atom binds, in its arguments and in its records
variablesOf(atom) ==
  { atom.args[p].name : p \in { q \in DOMAIN atom.args : atom.args[q].kind = "variable" } }
    \cup UNION { { atom.args[p].body[j].name :
                     j \in { q \in DOMAIN atom.args[p].body : atom.args[p].body[q].kind = "variable" } }
                 : p \in { q \in DOMAIN atom.args : atom.args[q].kind = "record" } }

\* the clauses given to the translator: a fact, and the rules with a head
\* h0() or h1(x), up to MaxAtoms body atoms, a negation !r1(x) or none, and a
\* plan for version 0 or none; the variables of head and negation are bound
\* in the body
Clauses ==
  { [head |-> AstAtom("h1", << AstNumberConstant(1) >>), atoms |-> << >>, negations |-> << >>,
     plan |-> NoPlan] }
  \cup
  { c \in UNION { [ head : { AstAtom("h0", << >>), AstAtom("h1", << AstVariable("x") >>) },
                    atoms : [1..n -> BodyAtoms],
                    negations : { << >>, << AstAtom("r1", << AstVariable("x") >>) >> },
                    plan : {NoPlan} \cup { AstExecutionPlan(0, o) : o \in Perms(1..n) } ]
                  : n \in 1..MaxAtoms } :
      variablesOf(c.head) \cup UNION { variablesOf(c.negations[j]) : j \in DOMAIN c.negations }
        \subseteq UNION { variablesOf(c.atoms[j]) : j \in DOMAIN c.atoms } }

\* no clause (nullptr)
NoClause == [head |-> AstAtom("", << >>), atoms |-> << >>, negations |-> << >>, plan |-> NoPlan]

\* the clause with its plan cleared and its atoms left in source order
getReorderedClauseInSourceOrder(clause, version) ==
  IF clause.plan # NoPlan /\ clause.plan.version = version
  THEN [ clause EXCEPT !.plan = NoPlan ]
  ELSE NoClause

\* getReorderedClause: the clause with its atoms in the order of the plan and
\* the plan cleared, or no clause (NoPlan stands for nullptr)
hasOrderFor(plan, version) == plan # NoPlan /\ plan.version = version

getReorderedClause(clause, version) ==
  IF hasOrderFor(clause.plan, version)
  THEN [ clause EXCEPT !.atoms = [ i \in DOMAIN clause.plan.order |-> clause.atoms[clause.plan.order[i]] ],
                       !.plan = NoPlan ]
  ELSE NoClause

\* createValueIndex: op_nesting holds the atoms in body order, each followed
\* by the records among its arguments; the entry at index k has level k - 1
nodesOf(atom) ==
  << [node |-> "atom", pos |-> 0, rel |-> atom.name, args |-> atom.args] >>
    \o SeqConcat([ p \in DOMAIN atom.args |->
                     IF atom.args[p].kind = "record"
                     THEN << [node |-> "record", pos |-> p - 1, rel |-> "", args |-> atom.args[p].body] >>
                     ELSE << >> ])

opNesting(clause) == SeqConcat([ i \in DOMAIN clause.atoms |-> nodesOf(clause.atoms[i]) ])

\* the level of the record itself
arg_levelOfRecord(nest, k) == k - 1

\* the level of the atom a record of op_nesting is an argument of
arg_level(nest, k) == MaxOf({ j \in 1..k : nest[j].node = "atom" }) - 1

\* the distinct aggregators of the clause in the order of the visit
RECURSIVE distinct(_)
distinct(s) ==
  IF s = << >> THEN << >>
  ELSE LET front == distinct(SubSeq(s, 1, Len(s) - 1))
       IN IF \E i \in DOMAIN front : front[i] = s[Len(s)] THEN front ELSE Append(front, s[Len(s)])

aggregatorsOf(clause) ==
  distinct(SeqConcat([ i \in DOMAIN clause.atoms |->
             SeqConcat([ p \in DOMAIN clause.atoms[i].args |->
                           IF clause.atoms[i].args[p].kind = "aggregator"
                           THEN << clause.atoms[i].args[p] >> ELSE << >> ]) ]))

\* the level of an aggregator: the aggregators take the levels after those
\* of op_nesting
getAggregatorLocation(nest, aggregators, agg) ==
  Len(nest) + (CHOOSE i \in DOMAIN aggregators : aggregators[i] = agg) - 1

isAggregator(nest, level) == level >= Len(nest)

\* the positions of the variables among arguments
variablePositions(args) == { p \in DOMAIN args : args[p].kind = "variable" }

\* indexValues and createValueIndex: the references of every variable, in
\* the entries of op_nesting and in the atoms of the aggregators
createValueIndex(nest, aggregators) ==
  UNION { { [var |-> nest[k].args[p].name, level |-> k - 1, element |-> p - 1] :
              p \in variablePositions(nest[k].args) } : k \in DOMAIN nest }
  \cup
  UNION { { [var |-> aggregators[i].body[1].args[p].name, level |-> Len(nest) + i - 1, element |-> p - 1] :
              p \in variablePositions(aggregators[i].body[1].args) } : i \in DOMAIN aggregators }

\* the order of Location, and the first reference of a variable
locationBefore(a, b) == a.level < b.level \/ (a.level = b.level /\ a.element < b.element)

getDefinitionPoint(index, var) ==
  CHOOSE a \in { r \in index : r.var = var } :
    \A b \in { r \in index : r.var = var } : a = b \/ locationBefore(a, b)

\* translateValue of an argument of the head or of a negation
translateValue(arg, index) ==
  CASE arg.kind = "variable" ->
         RamTupleElement(getDefinitionPoint(index, arg.name).level,
                         getDefinitionPoint(index, arg.name).element)
    [] arg.kind = "number" -> RamNumber(arg.name)
    [] OTHER -> RamUndefValue

\* a set of locations as a sequence in the order of Location
RECURSIVE sortedLocations(_)
sortedLocations(S) ==
  IF S = {} THEN << >>
  ELSE LET a == CHOOSE x \in S : \A y \in S : x = y \/ locationBefore(x, y)
       IN << a >> \o sortedLocations(S \ {a})

\* createOperation: the Project into the head, under a Filter on the head
\* being empty when the head is nullary
clauseOperation(clause, index) ==
  (IF Len(clause.head.args) = 0 THEN << RamFilter(RamEmptinessCheck(clause.head.name)) >> ELSE << >>)
    \o << RamProject(clause.head.name,
                     [ p \in DOMAIN clause.head.args |-> translateValue(clause.head.args[p], index) ]) >>

\* createCondition: the guard of the whole query
clauseCondition(originalClause) ==
  IF Len(originalClause.head.args) = 0
  THEN << RamFilter(RamEmptinessCheck(originalClause.head.name)) >>
  ELSE << >>

\* the Filters binding every further reference of a variable to its first
\* one, in the order in which they are wrapped around the operation
equalityFilters(nest, index) ==
  SeqConcat([ v \in DOMAIN variableNames |->
    IF \E r \in index : r.var = variableNames[v]
    THEN LET first == getDefinitionPoint(index, variableNames[v])
             locs == sortedLocations({ r \in index : r.var = variableNames[v] /\ r # first
                                                      /\ ~isAggregator(nest, r.level) })
         IN [ i \in DOMAIN locs |->
                RamFilter(RamConstraintEQ(RamTupleElement(first.level, first.element),
                                          RamTupleElement(locs[i].level, locs[i].element))) ]
    ELSE << >> ])

\* translateConstraint of a negation
visitNegation(atom, index) ==
  IF Len(atom.args) > 0
  THEN RamNegationOfExistenceCheck(atom.name, [ p \in DOMAIN atom.args |-> translateValue(atom.args[p], index) ])
  ELSE RamEmptinessCheck(atom.name)

constraintFilters(clause, index) ==
  [ j \in DOMAIN clause.negations |-> RamFilter(visitNegation(clause.negations[j], index)) ]

\* the Filters on the constants among the arguments of an entry of
\* op_nesting, in the order in which they are wrapped
constantFilters(args, level) ==
  SeqConcat([ p \in DOMAIN args |->
    IF args[p].kind = "number"
    THEN << RamFilter(RamConstraintEQ(RamTupleElement(level, p - 1), RamNumber(args[p].name))) >>
    ELSE << >> ])

isAllArgsUnnamed(args) == \A p \in DOMAIN args : args[p].kind = "unnamed"

scanned(args) == Len(args) # 0 /\ ~isAllArgsUnnamed(args)

\* the operations built for the entry at index k of op_nesting, from the
\* outermost to the innermost.  scan tells whether an atom gets a Scan
entryWith(scan, clause, nest, k) ==
  IF nest[k].node = "atom"
  THEN (IF scan
        THEN << RamScan(nest[k].rel, k - 1) >>
               \o (IF Len(clause.head.args) = 0
                   THEN << RamBreak(RamNegationOfEmptinessCheck(clause.head.name)) >>
                   ELSE << >>)
        ELSE << >>)
       \o << RamFilter(RamNegationOfEmptinessCheck(nest[k].rel)) >>
       \o Reverse(constantFilters(nest[k].args, k - 1))
  ELSE << RamUnpackRecord(k - 1, RamTupleElement(arg_level(nest, k), nest[k].pos), Len(nest[k].args)) >>
       \o Reverse(constantFilters(nest[k].args, k - 1))

entryAlwaysScanned(clause, nest, k) == entryWith(TRUE, clause, nest, k)

entryOperations(clause, nest, k) == entryWith(scanned(nest[k].args), clause, nest, k)

\* the Filters binding an argument that is an aggregator to the result of
\* the aggregate, in the order in which they are wrapped: op_nesting from
\* the back, the arguments of an atom from the front
aggregatorFilters(nest, aggregators) ==
  SeqConcat(Reverse([ k \in DOMAIN nest |->
    IF nest[k].node = "atom"
    THEN SeqConcat([ p \in DOMAIN nest[k].args |->
           IF nest[k].args[p].kind = "aggregator"
           THEN << RamFilter(RamConstraintEQ(
                     RamTupleElement(k - 1, p - 1),
                     RamTupleElement(getAggregatorLocation(nest, aggregators, nest[k].args[p]), 0))) >>
           ELSE << >> ])
    ELSE << >> ]))

\* the condition of an aggregate: each variable of its atom equals another
\* reference of the variable, the first one that is not the atom's own
aggCondition(atom, level, index) ==
  LET values == SeqConcat([ p \in DOMAIN atom.args |->
        LET others == IF atom.args[p].kind = "variable"
                      THEN sortedLocations({ r \in index : r.var = atom.args[p].name
                                               /\ (r.level # level \/ r.element # p - 1) })
                      ELSE << >>
        IN IF others # << >>
           THEN << RamTupleElement(others[1].level, others[1].element), RamTupleElement(level, p - 1) >>
           ELSE << >> ])
  IN IF values = << >> THEN RamTrue ELSE RamConjunctionOfEQ(values)

\* the atom of an aggregator: the first literal of its body that is an atom
aggregatorAtom(agg) == SelectSeq(agg.body, LAMBDA lit : lit.lit = "atom")[1]

\* the assertions on the body of an aggregator: the first literal is an atom
\* (createValueIndex), and every literal after the atom is an atom
assertionsHold(agg) ==
  /\ agg.body[1].lit = "atom"
  /\ \A k \in DOMAIN agg.body :
       (\E j \in 1..(k - 1) : agg.body[j].lit = "atom") => agg.body[k].lit = "atom"

\* translateConstraint of the literals of the body: a binary constraint
\* gives a condition over the values of its sides, an atom gives none
bodyConditions(agg, index) ==
  SeqConcat([ k \in DOMAIN agg.body |->
    IF agg.body[k].lit = "constraint"
    THEN << [c |-> "Constraint(" \o agg.body[k].name \o ")", rel |-> "",
             values |-> [ n \in 1..2 |-> translateValue(agg.body[k].args[n], index) ]] >>
    ELSE << >> ])

RamConjunction(lhs, rhs) ==
  [c |-> "Conjunction(" \o lhs.c \o ", " \o rhs.c \o ")", rel |-> "", values |-> lhs.values \o rhs.values]

\* the condition of the Aggregate: the conditions of the body literals, then
\* the equalities of the atom
RECURSIVE addAggCondition(_, _)
addAggCondition(conds, last) ==
  IF conds = << >> THEN last
  ELSE IF last = RamTrue /\ Len(conds) = 1 THEN conds[1]
  ELSE RamConjunction(conds[1], addAggCondition(Tail(conds), last))

\* the aggregates, the first aggregator the outermost
aggregates(nest, aggregators, index) ==
  [ i \in DOMAIN aggregators |->
      RamAggregate(aggregatorAtom(aggregators[i]).name, Len(nest) + i - 1, RamUndefValue,
                   addAggCondition(bodyConditions(aggregators[i], index),
                                   aggCondition(aggregatorAtom(aggregators[i]), Len(nest) + i - 1, index))) ]

\* translateClause of a rule without a plan for the version: the operations
\* of the query from the outermost to the innermost
clauseQuery(clause, originalClause) ==
  LET nest == opNesting(clause)
      aggregators == aggregatorsOf(clause)
      index == createValueIndex(nest, aggregators)
  IN clauseCondition(originalClause)
       \o SeqConcat([ k \in DOMAIN nest |-> entryOperations(clause, nest, k) ])
       \o aggregates(nest, aggregators, index)
       \o Reverse(aggregatorFilters(nest, aggregators))
       \o Reverse(constraintFilters(clause, index))
       \o Reverse(equalityFilters(nest, index))
       \o clauseOperation(clause, index)

\* translateClause of a fact
clauseFact(clause) ==
  << RamFact(clause.head.name, [ p \in DOMAIN clause.head.args |-> translateValue(clause.head.args[p], {}) ]) >>

\* the clause translator is not running
NoCt == [ at |-> "idle", clause |-> NoClause, originalClause |-> NoClause, version |-> 0,
          entries |-> 0, query |-> << >>, assertions |-> TRUE ]

\* the versions a clause is translated for
Versions == {0, 1}

ClauseInit ==
  /\ cfg = Plain
  /\ prog = ProgCopy
  /\ ord \in Orders(prog)
  /\ at = "create"
  /\ indexOfScc = 0
  /\ current = << >>
  /\ res = << >>
  /\ ramMain = << >>
  /\ exitSubs = {}
  /\ cleanupSub = << >>
  /\ ramRelations = [ n \in {} |-> 0 ]
  /\ pc = 0
  /\ spc = 0
  /\ iter = 0
  /\ store = [ n \in {} |-> {} ]
  /\ epoch = 0
  /\ obs = NoObs
  /\ cleared = {}
  /\ stored = {}
  /\ cleanupRan = FALSE
  /\ ann = [ at |-> "idle" ]
  /\ mangled = << >>
  /\ cnt = [ at |-> "idle" ]
  /\ \E c \in Clauses, v \in Versions, assertions \in BOOLEAN :
       ct = [ NoCt EXCEPT !.at = "enter", !.clause = c, !.originalClause = c, !.version = v,
                          !.assertions = assertions ]

ctUnchanged == UNCHANGED << cfg, prog, ord, transVars, runVars, ann, mangled, cnt >>

\* translateClause finds an order for the version and calls itself with the
\* reordered clause
CT_Reorder ==
  /\ ct.at = "enter"
  /\ getReorderedClause(ct.clause, ct.version) # NoClause
  /\ ct' = [ ct EXCEPT !.clause = getReorderedClause(ct.clause, ct.version), !.entries = @ + 1 ]
  /\ ctUnchanged

\* translateClause of a fact
CT_Fact ==
  /\ ct.at = "enter"
  /\ getReorderedClause(ct.clause, ct.version) = NoClause
  /\ ct.clause.atoms = << >> /\ ct.clause.negations = << >>
  /\ ct' = [ ct EXCEPT !.at = "done", !.entries = @ + 1, !.query = clauseFact(ct.clause) ]
  /\ ctUnchanged

\* an assertion on the body of an aggregator fails in a build that has them
assertionFails(clause, assertions) ==
  assertions /\ \E i \in DOMAIN aggregatorsOf(clause) : ~assertionsHold(aggregatorsOf(clause)[i])

\* translateClause of a rule is aborted by a failed assertion
CT_Abort ==
  /\ ct.at = "enter"
  /\ getReorderedClause(ct.clause, ct.version) = NoClause
  /\ ~(ct.clause.atoms = << >> /\ ct.clause.negations = << >>)
  /\ assertionFails(ct.clause, ct.assertions)
  /\ ct' = [ ct EXCEPT !.at = "fault", !.entries = @ + 1 ]
  /\ ctUnchanged

\* translateClause of a rule
CT_Rule ==
  /\ ct.at = "enter"
  /\ getReorderedClause(ct.clause, ct.version) = NoClause
  /\ ~(ct.clause.atoms = << >> /\ ct.clause.negations = << >>)
  /\ ~assertionFails(ct.clause, ct.assertions)
  /\ ct' = [ ct EXCEPT !.at = "done", !.entries = @ + 1,
                       !.query = clauseQuery(ct.clause, ct.originalClause) ]
  /\ ctUnchanged

ClauseNext == CT_Reorder \/ CT_Fact \/ CT_Abort \/ CT_Rule

ClauseSpec == ClauseInit /\ [][ClauseNext]_vars

\* ------------------------------------------------------------------------
\* The loops over the clauses of a relation in translateNonRecursiveRelation
\* and translateRecursiveRelation under -incremental: the two count
\* arguments of the head are read, cast to number constants, checked and
\* compared with 1 and -1.
\* ------------------------------------------------------------------------

\* the result of a dynamic_cast that fails
nullptr == [kind |-> "nullptr", name |-> "", body |-> << >>]

dynamic_cast_AstNumberConstant(arg) == IF arg.kind = "number" THEN arg ELSE nullptr

\* the arguments a head carries in a count column
CountArguments == { AstNumberConstant(-1), AstNumberConstant(0), AstNumberConstant(1), AstVariable("c") }

\* the number a constant stands for
getConstant(num) == CHOOSE n \in {-1, 0, 1} : AstNumberConstant(n) = num

\* the rules of the clause for the three flags the comparisons yield
rulesFor(c, p, rel, recursiveLoop, clause, prevCount, curCount) ==
  LET ic == [cl |-> clause, prevCount |-> prevCount, curCount |-> curCount]
  IN  IF recursiveLoop
      THEN recIncremental(c, p, p.sccs[sccOf(p, rel)], rel, ic)
      ELSE nonRecIncremental(c, p, rel, ic)

NoCnt ==
  [ at |-> "idle", recursiveLoop |-> FALSE, rel |-> "", heads |-> << >>, i |-> 1,
    prevCountNum |-> nullptr, curCountNum |-> nullptr, prevCount |-> 0, curCount |-> 0,
    log |-> << >>, rules |-> << >> ]

\* the clauses of tc, each head with two count arguments, and the function
\* whose loop runs over them
CountInit ==
  /\ cfg = [Plain EXCEPT !.incremental = TRUE]
  /\ prog = ProgTc
  /\ ord \in Orders(prog)
  /\ at = "create"
  /\ indexOfScc = 0
  /\ current = << >>
  /\ res = << >>
  /\ ramMain = << >>
  /\ exitSubs = {}
  /\ cleanupSub = << >>
  /\ ramRelations = [ n \in {} |-> 0 ]
  /\ pc = 0
  /\ spc = 0
  /\ iter = 0
  /\ store = [ n \in {} |-> {} ]
  /\ epoch = 0
  /\ obs = NoObs
  /\ cleared = {}
  /\ stored = {}
  /\ cleanupRan = FALSE
  /\ ann = [ at |-> "idle" ]
  /\ mangled = << >>
  /\ ct = [ at |-> "idle" ]
  /\ \E recursiveLoop \in BOOLEAN,
        heads \in [ DOMAIN getClauses(ProgTc, "tc") -> CountArguments \X CountArguments ] :
       cnt = [ NoCnt EXCEPT !.at = "clause", !.recursiveLoop = recursiveLoop, !.rel = "tc",
                            !.heads = heads,
                            !.rules = [ k \in DOMAIN heads |-> << >> ] ]

cntUnchanged == UNCHANGED << cfg, prog, ord, transVars, runVars, ann, mangled, ct >>

cntClause == getClauses(prog, cnt.rel)[cnt.i]

cntAdvance(c) ==
  [ c EXCEPT !.i = @ + 1, !.at = IF c.i + 1 > Len(c.heads) THEN "done" ELSE "clause" ]

\* a clause the loop is not about: continue
K_Continue ==
  /\ cnt.at = "clause"
  /\ recursive(prog, cntClause) # cnt.recursiveLoop
  /\ cnt' = cntAdvance(cnt)
  /\ cntUnchanged

\* the two arguments are cast; the message is written when a cast failed
K_Check ==
  /\ cnt.at = "clause"
  /\ recursive(prog, cntClause) = cnt.recursiveLoop
  /\ LET prevCountNum == dynamic_cast_AstNumberConstant(cnt.heads[cnt.i][1])
         curCountNum == dynamic_cast_AstNumberConstant(cnt.heads[cnt.i][2])
     IN  cnt' = [ cnt EXCEPT !.at = "compare",
                             !.prevCountNum = prevCountNum,
                             !.curCountNum = curCountNum,
                             !.log = IF prevCountNum = nullptr \/ curCountNum = nullptr
                                     THEN Append(@, "count annotations are not intialized!")
                                     ELSE @ ]
  /\ cntUnchanged

\* the comparisons of two number constants
K_Compare ==
  /\ cnt.at = "compare"
  /\ cnt.prevCountNum # nullptr /\ cnt.curCountNum # nullptr
  /\ cnt' = [ cnt EXCEPT !.at = "rules",
                         !.prevCount = getConstant(cnt.prevCountNum),
                         !.curCount = getConstant(cnt.curCountNum) ]
  /\ cntUnchanged

\* the comparisons dereference a null pointer: the translator faults, or
\* the comparison reads whatever number it finds
K_Dereference ==
  /\ cnt.at = "compare"
  /\ cnt.prevCountNum = nullptr \/ cnt.curCountNum = nullptr
  /\ \/ cnt' = [ cnt EXCEPT !.at = "fault" ]
     \/ \E p \in {-1, 0, 1}, c \in {-1, 0, 1} :
          /\ cnt.prevCountNum # nullptr => p = getConstant(cnt.prevCountNum)
          /\ cnt.curCountNum # nullptr => c = getConstant(cnt.curCountNum)
          /\ cnt' = [ cnt EXCEPT !.at = "rules", !.prevCount = p, !.curCount = c ]
  /\ cntUnchanged

\* the branch the flags select emits the rules of the clause
K_Rules ==
  /\ cnt.at = "rules"
  /\ cnt' = [ cntAdvance(cnt) EXCEPT
                !.rules[cnt.i] = rulesFor(cfg, prog, cnt.rel, cnt.recursiveLoop, cntClause,
                                          cnt.prevCount, cnt.curCount) ]
  /\ cntUnchanged

CountNext == K_Continue \/ K_Check \/ K_Compare \/ K_Dereference \/ K_Rules

CountSpec == CountInit /\ [][CountNext]_vars

\* ------------------------------------------------------------------------
\* Properties
\* ------------------------------------------------------------------------

\* the Exit statement of an incremental loop has just been evaluated
AfterExit == at = "done" /\ cfg.incremental /\ obs.kind = "Exit"

\* the members of the SCC of the statement just run
membersOf(s) == prog.sccs[s.scc + 1]

newDiffsEmpty(s) ==
  \A R \in membersOf(s) :
    /\ Val(translateNewDiffPlusRelation(R)) = {}
    /\ Val(translateNewDiffMinusRelation(R)) = {}

\* control has left the loop / goes on with the update table of the loop
LoopLeft == pc \in DOMAIN ramMain /\ ramMain[pc].part = "postamble"
LoopContinues == pc \in DOMAIN ramMain /\ ramMain[pc].part = "update"

\* C1: in incremental mode the loop of an SCC exits in an iteration if and
\* only if new_diff_plus_R and new_diff_minus_R are empty for every member R
\* and scc_i_exit, called with the iteration number, returns true; otherwise
\* the loop continues with the update table.
C1_LoopExitsIff ==
  AfterExit =>
    /\ obs.stmt.src = exitSubroutineName(obs.stmt.scc)
    /\ obs.arg = iter
    /\ LoopLeft <=> (newDiffsEmpty(obs.stmt) /\ obs.ret # 0)
    /\ LoopContinues <=> ~(newDiffsEmpty(obs.stmt) /\ obs.ret # 0)

\* the loop of a two-member SCC goes on although every new_diff variant is
\* empty, because the subroutine returned false
C1_Witness ==
  /\ AfterExit /\ Cardinality(membersOf(obs.stmt)) = 2
  /\ newDiffsEmpty(obs.stmt) /\ obs.ret = 0 /\ LoopContinues

Pos == DOMAIN ramMain

\* translateProgram has just returned; the emitted program does not change
\* while it runs
Emitted == at = "done" /\ epoch = 1 /\ pc = 1 /\ spc = 0
Boundary(i) == { p \in Pos : ramMain[p].scc = i /\ ramMain[p].part \in {"clear", "exit", "update"} }
InUpdate(i) == { p \in Pos : ramMain[p].scc = i /\ ramMain[p].part = "update" }
Before(A, B) == \A a \in A, b \in B : a < b
recursiveSccs == { i \in 0..(Len(prog.sccs) - 1) : prog.rec[i + 1] }

deltaVariants(R) ==
  { translateDeltaRelation(R), translateDeltaDiffAppliedRelation(R),
    translateDeltaDiffMinusAppliedRelation(R), translateDeltaDiffMinusCountRelation(R),
    translateDeltaDiffPlusCountRelation(R), translateTemporaryDeltaDiffAppliedRelation(R) }
stableVariants(R) ==
  { translateDiffPlusRelation(R), translateDiffMinusRelation(R), translateDiffAppliedRelation(R),
    translateDiffPlusCountRelation(R), translateDiffMinusCountRelation(R),
    translateDiffPlusAppliedRelation(R), translateDiffMinusAppliedRelation(R) }
deltaDiffVariants(R) ==
  { translateDeltaDiffAppliedRelation(R), translateDeltaDiffMinusAppliedRelation(R),
    translateDeltaDiffPlusCountRelation(R), translateDeltaDiffMinusCountRelation(R) }
newDiffVariants(R) == { translateNewDiffPlusRelation(R), translateNewDiffMinusRelation(R) }

Merges == { "Merge", "PositiveMerge", "SemiMerge" }

\* the five steps of the boundary, as sets of positions
stepClearDelta(i) == { p \in Pos : ramMain[p].scc = i /\ ramMain[p].part = "clear" }
stepDelta(i, R) ==
  { p \in InUpdate(i) : ramMain[p].op = "PositiveMerge" /\ ramMain[p].dst = translateDeltaRelation(R)
                          /\ ramMain[p].src = translatePreviousIndexedRelation(R) }
stepMerge(i, R) == { p \in InUpdate(i) : ramMain[p].op \in Merges /\ ramMain[p].dst \in stableVariants(R) }
stepSeed(i, R) == { p \in InUpdate(i) : ramMain[p].op \in Merges /\ ramMain[p].dst \in deltaDiffVariants(R) }
stepClearNew(i, R) == { p \in InUpdate(i) : ramMain[p].op = "Clear" /\ ramMain[p].dst \in newDiffVariants(R) }

\* C3: in incremental mode the iteration boundary of an SCC loop runs, for
\* every member R, (i) the clears of the delta variants of every member,
\* (ii) the positive-merge of previous_indexed_R into delta_R, (iii) the
\* merges into diff_minus_R, diff_plus_R, the applied and the count variants,
\* (iv) the seeding of the delta_diff variants, (v) the clears of
\* new_diff_plus_R and new_diff_minus_R, in this order; every statement of
\* the boundary that reads a new_diff variant runs before the clear of that
\* variant and after the clears of the delta variants.
C3_BoundaryOrder ==
  (Emitted /\ cfg.incremental) =>
    \A i \in recursiveSccs :
      /\ { ramMain[p].op : p \in stepClearDelta(i) } = {"Clear"}
      /\ { ramMain[p].dst : p \in stepClearDelta(i) } = UNION { deltaVariants(R) : R \in prog.sccs[i + 1] }
      /\ \A R \in prog.sccs[i + 1] :
           /\ Cardinality(stepDelta(i, R)) = 1
           /\ { ramMain[p].dst : p \in stepMerge(i, R) } = stableVariants(R)
           /\ \A p \in stepMerge(i, R) : Reads(ramMain[p]) \cap newDiffVariants(R) # {}
           /\ { ramMain[p].dst : p \in stepSeed(i, R) } = deltaDiffVariants(R)
           /\ { ramMain[p].dst : p \in stepClearNew(i, R) } = newDiffVariants(R)
           /\ Before(stepClearDelta(i), stepDelta(i, R))
           /\ Before(stepDelta(i, R), stepMerge(i, R))
           /\ Before(stepMerge(i, R), stepSeed(i, R))
           /\ Before(stepSeed(i, R), stepClearNew(i, R))
           /\ \A v \in newDiffVariants(R) :
                \A p \in Boundary(i) :
                  v \in Reads(ramMain[p]) =>
                    /\ \A q \in stepClearNew(i, R) : ramMain[q].dst = v => p < q
                    /\ Before(stepClearDelta(i), {p})

\* the update table of a two-member SCC has run to its end with rows to
\* merge: the delta variants and the new_diff variants are cleared, diff_plus
\* of a member holds the rows of this iteration
C3_Witness ==
  /\ cfg.incremental /\ Running
  /\ Cur.op = "LoopEnd" /\ obs.stmt.part = "update"
  /\ Cardinality(membersOf(obs.stmt)) = 2
  /\ \A R \in membersOf(obs.stmt) : deltaVariants(R) \cup newDiffVariants(R) \subseteq cleared
  /\ \E R \in membersOf(obs.stmt) : Val(translateDiffPlusRelation(R)) = {iter}

\* the variants the rules of a loop write
newVariants(R) == { translateNewRelation(R) } \cup newDiffVariants(R)

InStratum(i) == { p \in Pos : ramMain[p].scc = i }
InBody(i) == { p \in Pos : ramMain[p].scc = i /\ ramMain[p].part = "body" }

\* the Merge statements of the update table of SCC i that have v as source
mergesFrom(i, v) == { p \in InUpdate(i) : ramMain[p].op = "Merge" /\ ramMain[p].src = v }

\* C4 (as amended): in the loop of an SCC the new variants of a member R are
\* written by no statement but the rules of the loop body and the Swap of
\* delta_R and new_R; at the iteration boundary new_R is the source of exactly
\* one Merge, and in incremental mode new_diff_plus_R is the source of seven
\* Merges and new_diff_minus_R of eight, all of them before the Clear of the
\* variant; in incremental mode no rule writes new_R.
C4_NewVariantMerges ==
  Emitted =>
    \A i \in recursiveSccs : \A R \in prog.sccs[i + 1] :
      /\ \A p \in InStratum(i) :
           (Writes(ramMain[p]) \cap newVariants(R) # {} /\ ramMain[p].op # "Swap")
             => (ramMain[p].op = "Query" /\ ramMain[p].part = "body")
      /\ Cardinality(mergesFrom(i, translateNewRelation(R))) = 1
      /\ cfg.incremental =>
           /\ Cardinality(mergesFrom(i, translateNewDiffPlusRelation(R))) = 7
           /\ Cardinality(mergesFrom(i, translateNewDiffMinusRelation(R))) = 8
           /\ \A v \in newDiffVariants(R) : Before(mergesFrom(i, v), stepClearNew(i, R))
           /\ \A p \in InBody(i) : ramMain[p].dst # translateNewRelation(R)

\* the rows a rule wrote to new_diff_plus_R in this iteration have been
\* merged into four variants of R by the update table
C4_Witness ==
  /\ cfg.incremental /\ Running /\ Cur.op = "LoopEnd" /\ obs.stmt.part = "update"
  /\ \E R \in membersOf(obs.stmt) :
       /\ Val(translateDiffPlusRelation(R)) = {iter}
       /\ Val(translateDiffPlusAppliedRelation(R)) = {iter}
       /\ Val(translateDiffAppliedRelation(R)) = {iter}
       /\ Val(translateDiffPlusCountRelation(R)) = {iter}
       /\ Val(translateNewDiffPlusRelation(R)) = {}

\* C4 as stated: every new variant is the source of exactly one merge
C4_AsStated ==
  Emitted =>
    \A i \in recursiveSccs : \A R \in prog.sccs[i + 1] :
      \A v \in (IF cfg.incremental THEN newVariants(R) ELSE { translateNewRelation(R) }) :
        Cardinality({ p \in InUpdate(i) : ramMain[p].op \in Merges /\ ramMain[p].src = v }) = 1

\* what the rules of the loop body of SCC i write and read
bodyWrites(i) == { ramMain[p].dst : p \in InBody(i) }
bodyReads(i) == UNION { ramMain[p].rd \cup ramMain[p].ex \cup ramMain[p].ed : p \in InBody(i) }

auxVariants(R) ==
  { translateDeltaRelation(R), translateNewRelation(R) }
    \cup (IF cfg.incremental
          THEN { translatePreviousIndexedRelation(R), translateNewDiffPlusRelation(R),
                 translateNewDiffMinusRelation(R), translateDeltaDiffAppliedRelation(R),
                 translateDeltaDiffMinusAppliedRelation(R), translateDeltaDiffPlusCountRelation(R),
                 translateDeltaDiffMinusCountRelation(R), translateTemporaryDeltaDiffAppliedRelation(R) }
          ELSE {})

\* what the entry of stratum i creates besides the members and their stable
\* variants, and what its postamble drops
createdAtEntry(i) ==
  { ramMain[p].dst : p \in { q \in InStratum(i) : ramMain[q].blk = "create" /\ ramMain[q].op = "Create" } }
    \ UNION { {translateRelation(R, "")} \cup stableVariants(R) : R \in prog.sccs[i + 1] }
droppedByPostamble(i) ==
  { ramMain[p].dst : p \in { q \in InStratum(i) : ramMain[q].part = "postamble" /\ ramMain[q].op = "Drop" } }

positionsOf(op, v) == { p \in Pos : ramMain[p].op = op /\ ramMain[p].dst = v }

\* C6: for every recursive SCC the variants its postamble drops are the
\* auxiliary variants created for its members at the entry of the SCC (delta
\* and new, in incremental mode also previous_indexed, new_diff_plus,
\* new_diff_minus and the delta_diff and temp_delta variants); each of them is
\* created before its first use, dropped exactly once, after the loop, and
\* referred to by no statement after the postamble.
C6_AuxiliaryLifetime ==
  Emitted =>
    \A i \in recursiveSccs :
      /\ droppedByPostamble(i) = createdAtEntry(i)
      /\ droppedByPostamble(i) = UNION { auxVariants(R) : R \in prog.sccs[i + 1] }
      /\ \A v \in droppedByPostamble(i) :
           /\ Cardinality(positionsOf("Create", v)) = 1
           /\ Cardinality(positionsOf("Drop", v)) = 1
           /\ \A c \in positionsOf("Create", v), d \in positionsOf("Drop", v) :
                /\ \A p \in Pos : v \in Refs(ramMain[p]) => (c <= p /\ p <= d)
                /\ \A p \in Pos : (ramMain[p].scc = i /\ ramMain[p].op = "LoopEnd") => p < d
           /\ \A p \in DOMAIN cleanupSub : v \notin Refs(cleanupSub[p])

\* the postamble of a two-member SCC of an incremental program has run: none
\* of the auxiliary variants is left, the members are
C6_Witness ==
  /\ at = "done" /\ cfg.incremental
  /\ obs.kind = "Drop" /\ obs.stmt.part = "postamble"
  /\ Cardinality(membersOf(obs.stmt)) = 2
  /\ \A R \in membersOf(obs.stmt) :
       /\ auxVariants(R) \cap DOMAIN store = {}
       /\ translateRelation(R, "") \in DOMAIN store

outputRelations == { translateRelation(R, "") : R \in { r \in DOMAIN prog.rels : prog.rels[r].output } }
cleanupCalls == { p \in Pos : ramMain[p].op = "CallSubroutine" /\ ramMain[p].src = "incremental_cleanup" }
outputStores == { p \in Pos : ramMain[p].op = "Store" /\ ramMain[p].src \in outputRelations }

\* C7: in incremental mode every Store of an output relation is in the last
\* stratum and after the call of incremental_cleanup; no output relation is
\* stored before the cleanup has run, whichever SCC it belongs to.
C7_OutputAfterCleanup ==
  /\ (Emitted /\ cfg.incremental) =>
       /\ Cardinality(cleanupCalls) = (IF numSCCs = 0 THEN 0 ELSE 1)
       /\ \A p \in outputStores : ramMain[p].scc = Len(prog.sccs) - 1
       /\ Before(cleanupCalls, outputStores)
       /\ { ramMain[p].src : p \in outputStores } = outputRelations
  /\ (at = "done" /\ cfg.incremental /\ stored \cap outputRelations # {}) =>
       /\ cleanupRan /\ spc = 0
       /\ \A R \in DOMAIN prog.rels : \A v \in stableVariants(R) : Val(v) = {}

\* an output relation of an SCC that is not the last one has been stored,
\* with rows, after the cleanup
C7_Witness ==
  /\ at = "done" /\ cfg.incremental /\ cleanupRan
  /\ \E i \in 1..(Len(prog.sccs) - 1) : \E R \in prog.sccs[i] :
       /\ prog.rels[R].output
       /\ translateRelation(R, "") \in stored
       /\ Val(translateRelation(R, "")) # {}

\* the statements of the cleanup subroutine for relation R
CPos == DOMAIN cleanupSub
cleanupOf(R) == { p \in CPos : cleanupSub[p].rel = R }
cleanupMerge(R, v) ==
  { p \in cleanupOf(R) : cleanupSub[p].op = "Merge" /\ cleanupSub[p].dst = translateRelation(R, "")
                           /\ cleanupSub[p].src = v }
cleanupClears(R) == { p \in cleanupOf(R) : cleanupSub[p].op = "Clear" }
cleanupRewrite(R) ==
  { p \in cleanupOf(R) : cleanupSub[p].op = "Query" /\ cleanupSub[p].dst = translateRelation(R, "")
                           /\ cleanupSub[p].rd = { translateRelation(R, "") } }

\* C8: for every relation R the cleanup subroutine merges diff_minus_R and
\* diff_plus_R into R, then clears the seven diff, count and applied
\* variants of R, then rewrites the rows of R so that prev_count and
\* current_count are -1 and every other column, the iteration column
\* included, keeps its value; each merge into R precedes the clear of its
\* source.
C8_CleanupOrder ==
  /\ (Emitted /\ cfg.incremental) =>
       \A R \in DOMAIN prog.rels :
         /\ Cardinality(cleanupMerge(R, translateDiffMinusRelation(R))) = 1
         /\ Cardinality(cleanupMerge(R, translateDiffPlusRelation(R))) = 1
         /\ Cardinality(cleanupRewrite(R)) = 1
         /\ Cardinality(cleanupClears(R)) = 7
         /\ { cleanupSub[p].dst : p \in cleanupClears(R) } = stableVariants(R)
         /\ Before(cleanupMerge(R, translateDiffMinusRelation(R)), cleanupMerge(R, translateDiffPlusRelation(R)))
         /\ Before(cleanupMerge(R, translateDiffPlusRelation(R)), cleanupClears(R))
         /\ Before(cleanupClears(R), cleanupRewrite(R))
         /\ \A p \in cleanupRewrite(R) :
              LET n == prog.rels[R].arity + 3
              IN  /\ Len(cleanupSub[p].proj) = n
                  /\ \A k \in 1..(n - 2) : cleanupSub[p].proj[k] = TupleElement(0, k - 1)
                  /\ cleanupSub[p].proj[n - 1] = Number(-1)
                  /\ cleanupSub[p].proj[n] = Number(-1)
  /\ (at = "done" /\ obs.kind = "Query" /\ obs.stmt.blk = "subroutine" /\ obs.row # << >>) =>
       LET n == Len(obs.row)
       IN  /\ Len(obs.out) = n
           /\ \A k \in 1..(n - 2) : obs.out[k] = obs.row[k]
           /\ obs.out[n - 1] = -1 /\ obs.out[n] = -1
           /\ \A v \in stableVariants(obs.stmt.rel) : Val(v) = {}

\* a row with counts (1, 1) and an iteration number of its own has been
\* rewritten; the relation holds what diff_plus held
C8_Witness ==
  /\ at = "done" /\ obs.kind = "Query" /\ obs.stmt.blk = "subroutine"
  /\ obs.row # << >> /\ obs.row[Len(obs.row)] = 1 /\ obs.row[Len(obs.row) - 1] = 1
  /\ obs.out[Len(obs.out) - 2] = obs.row[Len(obs.row) - 2]
  /\ obs.out[Len(obs.out)] = -1
  /\ translateDiffPlusRelation(obs.stmt.rel) \in cleared

\* some stable variant has rows
someStable == \E R \in DOMAIN prog.rels : \E v \in stableVariants(R) : Val(v) # {}

\* C9 (as amended): in incremental mode no Clear and no Drop of a stratum,
\* preamble, loop or postamble has a stable variant (diff_plus, diff_minus,
\* diff_applied, diff_plus_count, diff_minus_count, diff_plus_applied,
\* diff_minus_applied) as its target; they are cleared only by the
\* incremental_cleanup subroutine, which is called before the output
\* relations are stored.
C9_StableVariants ==
  /\ (Emitted /\ cfg.incremental) =>
       /\ \A p \in Pos : \A R \in DOMAIN prog.rels :
            ramMain[p].op \in {"Clear", "Drop"} => ramMain[p].dst \notin stableVariants(R)
       /\ \A R \in DOMAIN prog.rels : \A v \in stableVariants(R) :
            \E p \in CPos : cleanupSub[p].op = "Clear" /\ cleanupSub[p].dst = v
       /\ Before(cleanupCalls, outputStores)
  /\ (at = "done" /\ cfg.incremental /\ ~cleanupRan) =>
       \A R \in DOMAIN prog.rels : cleared \cap stableVariants(R) = {}
  /\ (at = "done" /\ cfg.incremental /\ obs.kind = "CallSubroutine") =>
       stored \cap outputRelations = {}

\* the cleanup has cleared the stable variants of every relation, and no
\* output relation has been stored yet
C9_Witness ==
  /\ at = "done" /\ cfg.incremental /\ cleanupRan /\ spc = 0
  /\ obs.stmt.blk = "subroutine"
  /\ \A R \in DOMAIN prog.rels : stableVariants(R) \subseteq cleared
  /\ ~someStable
  /\ \E R \in DOMAIN prog.rels : Val(translateRelation(R, "")) # {}
  /\ stored \cap outputRelations = {}

\* C9 as stated: the cleanup runs after output, so when it is called the
\* output relations have been stored
C9_AsStated ==
  (at = "done" /\ cfg.incremental /\ obs.kind = "CallSubroutine") =>
    outputRelations \subseteq stored

\* the positions of stratum i with a statement of the given kind / block
opsIn(i, op) == { p \in InStratum(i) : ramMain[p].op = op }
blockOf(i, b) == { p \in InStratum(i) : ramMain[p].blk = b }
baseRelations == { translateRelation(R, "") : R \in DOMAIN prog.rels }
baseDrops(i) == { p \in opsIn(i, "Drop") : ramMain[p].dst \in baseRelations }
strata == 0..(Len(prog.sccs) - 1)

\* C10 (as amended): the program driver emits one stratum per SCC, in the
\* order of the SCCs, and in every stratum its Creates come first, then the
\* Loads, then the compute statement, then the Stores, then the Drops of base
\* relations: no Load precedes a Create of the driver, no statement of the
\* compute statement precedes a Load, no Store precedes the compute
\* statement, no Drop of a base relation precedes a Store.  The one Create
\* that follows the Loads is that of the max-iteration relation, which the
\* compute statement of a recursive SCC holds in incremental mode.
C10_StratumOrder ==
  Emitted =>
    /\ \A p, q \in Pos : p < q => ramMain[p].scc <= ramMain[q].scc
    /\ \A i \in strata :
         /\ blockOf(i, "create") # {} /\ blockOf(i, "create") \subseteq opsIn(i, "Create")
         /\ opsIn(i, "Load") = blockOf(i, "load")
         /\ opsIn(i, "Store") = blockOf(i, "store") \cup blockOf(i, "cleanupStore")
         /\ baseDrops(i) = blockOf(i, "drop")
         /\ Before(blockOf(i, "create"), opsIn(i, "Load"))
         /\ Before(blockOf(i, "create"), blockOf(i, "compute"))
         /\ Before(opsIn(i, "Load"), blockOf(i, "compute"))
         /\ Before(blockOf(i, "compute"), opsIn(i, "Store"))
         /\ Before(opsIn(i, "Store"), baseDrops(i))
         /\ \A p \in opsIn(i, "Create") \ blockOf(i, "create") :
              /\ cfg.incremental /\ prog.rec[i + 1]
              /\ ramMain[p].blk = "compute" /\ ramMain[p].part = "preamble"
              /\ ramMain[p].dst = maxIterRelation(i)

\* a stratum with a Load, a Store and a Drop has run to its end without the
\* max-iteration relation: the relation loaded and the relation stored are
\* dropped
C10_Witness ==
  /\ at = "done" /\ ~cfg.incremental /\ pc = Len(ramMain) + 1
  /\ obs.kind = "Drop" /\ obs.stmt.blk = "drop"
  /\ opsIn(obs.stmt.scc, "Load") # {} /\ stored # {}
  /\ \A v \in stored : v \notin DOMAIN store

\* C10 as stated: within a stratum no Load precedes a Create
C10_AsStated ==
  Emitted =>
    \A i \in strata :
      /\ Before(opsIn(i, "Create"), opsIn(i, "Load"))
      /\ Before(opsIn(i, "Load"), blockOf(i, "compute"))
      /\ Before(blockOf(i, "compute"), opsIn(i, "Store"))
      /\ Before(opsIn(i, "Store"), baseDrops(i))

\* ------------------------------------------------------------------------
\* The relation table of the RAM program
\* ------------------------------------------------------------------------

\* every relation some node of the emitted program refers to: those of the
\* statements of the main program and of incremental_cleanup, and the
\* relation an exit subroutine scans
referencedRelations ==
  UNION { Refs(ramMain[p]) : p \in Pos }
    \cup UNION { Refs(cleanupSub[p]) : p \in DOMAIN cleanupSub }
    \cup { e.body.scan : e \in exitSubs }

\* the max-iteration relations of the recursive strata
maxIterRelations == { maxIterRelation(i) : i \in recursiveSccs }

\* C11 (as stated): every relation referenced by a statement, operation or
\* condition of the emitted program, the max-iteration relation of an SCC
\* included, is in the relation table of the RAM program.
C11_AsStated ==
  Emitted => referencedRelations \subseteq DOMAIN ramRelations

\* what the translator does keep: every referenced relation except the
\* max-iteration relations is in the table, and no max-iteration relation is
C11_OthersRegistered ==
  Emitted => /\ referencedRelations \ maxIterRelations \subseteq DOMAIN ramRelations
             /\ maxIterRelations \cap DOMAIN ramRelations = {}

\* an incremental program with a recursive stratum has been translated: its
\* max-iteration relation is created and read, and the table lacks it
C11_Witness ==
  /\ Emitted /\ cfg.incremental
  /\ \E p \in Pos : ramMain[p].op = "MaxQuery" /\ ramMain[p].dst \notin DOMAIN ramRelations
  /\ \E e \in exitSubs : e.body.scan \notin DOMAIN ramRelations

\* the last n elements of a sequence
lastOf(s, n) == SubSeq(s, Len(s) - n + 1, Len(s))

\* the relation of the source program and the prefix a name of the table
\* was made from
baseOf(n) ==
  { c \in (DOMAIN prog.rels) \X variantPrefixes : translateRelation(c[1], c[2]) = n }

\* C12: with incremental on, every relation of the relation table of the RAM
\* program, a relation of the source or one of its variants, has the arity
\* of the source relation plus 3, and its last three attributes are
\* @iteration, @prev_count, @current_count in this order; every Create of
\* a relation of the table is of such a relation.
C12_IncrementalArity ==
  Emitted /\ cfg.incremental =>
    /\ \A n \in DOMAIN ramRelations :
         /\ baseOf(n) # {}
         /\ \A c \in baseOf(n) :
              /\ ramRelations[n].arity = prog.rels[c[1]].arity + 3
              /\ Len(ramRelations[n].attributeNames) = ramRelations[n].arity
              /\ lastOf(ramRelations[n].attributeNames, 3)
                   = << "@iteration", "@prev_count", "@current_count" >>
    /\ \A p \in Pos : ramMain[p].op = "Create" /\ ramMain[p].direct = {}
                         => ramMain[p].dst \in DOMAIN ramRelations

\* an incremental program has been translated whose table holds a relation
\* of the source and several of its variants, of source arity 0 and 1
C12_Witness ==
  /\ Emitted /\ cfg.incremental
  /\ \E r \in DOMAIN prog.rels :
       /\ { translateRelation(r, ""), translateDiffPlusRelation(r),
            translateNewDiffMinusRelation(r), translateDeltaDiffAppliedRelation(r) }
            \subseteq DOMAIN ramRelations
       /\ prog.rels[r].arity = 0
       /\ ramRelations[translateDiffPlusRelation(r)].arity = 3
  /\ \E r \in DOMAIN prog.rels :
       /\ translateRelation(r, "") \in DOMAIN ramRelations
       /\ ramRelations[translateRelation(r, "")].arity = 4

\* ------------------------------------------------------------------------
\* The annotated AST
\* ------------------------------------------------------------------------

\* the annotator has returned
Annotated == ann.at = "done"

\* the atoms of a clause by where they occur
headAtoms(clause) == { clause.head }
bodyAtoms(clause) == { clause.body[i] : i \in { j \in DOMAIN clause.body : clause.body[j].lit = "atom" } }
negatedAtoms(clause) ==
  { clause.body[i] : i \in { j \in DOMAIN clause.body : clause.body[j].lit = "negation" } }
nestedAtoms(clause) ==
  UNION { UNION { Range(a.body) : a \in Range(l.args) } : l \in {clause.head} \cup Range(clause.body) }

\* the number of arguments an atom has more than its relation has attributes
\* in the source program
added(atom) == Len(atom.args) - Len(sourceAttributes[atom.name])

\* C13 (as stated): after the annotator has run every atom occurrence, in a
\* head, in a body, under a negation or nested inside an argument or
\* aggregator, has exactly three more arguments than in the source program,
\* which is the arity of its annotated relation.
C13_AsStated ==
  Annotated =>
    \A i \in DOMAIN ann.clauses :
      \A atom \in headAtoms(ann.clauses[i]) \cup bodyAtoms(ann.clauses[i])
                    \cup negatedAtoms(ann.clauses[i]) \cup nestedAtoms(ann.clauses[i]) :
        /\ added(atom) = 3
        /\ Len(atom.args) = Len(ann.attributes[atom.name])

\* what the annotator does: head atoms and positive body atoms get three
\* arguments and match their relation; an atom under a negation or inside an
\* aggregator gets two unnamed variables and is one short of its relation
C13_ThreeOrTwo ==
  Annotated =>
    \A i \in DOMAIN ann.clauses :
      /\ \A atom \in headAtoms(ann.clauses[i]) \cup bodyAtoms(ann.clauses[i]) :
           added(atom) = 3 /\ Len(atom.args) = Len(ann.attributes[atom.name])
      /\ \A atom \in negatedAtoms(ann.clauses[i]) \cup nestedAtoms(ann.clauses[i]) :
           added(atom) = 2 /\ Len(atom.args) = Len(ann.attributes[atom.name]) - 1

\* a program with a negated atom has been annotated: the atom under the
\* negation has two more arguments, its relation three more attributes
C13_Witness ==
  /\ Annotated
  /\ \E i \in DOMAIN ann.clauses : \E atom \in negatedAtoms(ann.clauses[i]) :
       added(atom) = 2 /\ Len(ann.attributes[atom.name]) = Len(sourceAttributes[atom.name]) + 3

\* the clauses the annotator made from source clause id, by kind
madeFrom(id, kind) == { i \in DOMAIN ann.clauses : ann.clauses[i].id = id /\ ann.clauses[i].made = kind }

\* the last three arguments of the head of a clause
headCounts(clause) == lastOf(clause.head.args, 3)

stratumOf(c, p, o, k) ==
  LET blk(b, name) == InScc(InBlock(b, name), k)
  IN  blk(createBlock(c, p, o, k + 1), "create")
        \o blk(loadBlock(c, p, o, k + 1), "load")
        \o blk(seedBlock(c, p, o, k + 1), "seed")
        \o blk(computeBlock(c, p, o, k + 1, k), "compute")
        \o blk(mergeBlock(c, p, o, k + 1), "merge")
        \o blk(storeBlock(c, p, o, k + 1), "store")
        \o blk(dropBlock(c, p, o, k + 1), "drop")
        \o (IF c.incremental /\ k = Len(p.sccs) - 1
              THEN blk(cleanupCall, "cleanup") \o blk(cleanupStores(p, o), "cleanupStore")
              ELSE << >>)

\* the main program as a function of configuration, AST and iteration orders
mainOf(c, p, o) == SeqConcat([ i \in DOMAIN p.sccs |-> stratumOf(c, p, o, i - 1) ])

\* C16 (as stated): the emitted program is the same whatever the order in
\* which the sets of relations are iterated, i.e. whatever the addresses
\* of the AST relations.
C16_AsStated ==
  Emitted => \A o \in Orders(prog) : mainOf(cfg, prog, o) = ramMain

\* the emitted program is a function of configuration, AST and iteration
\* order; it is the same for all orders when no SCC has two members
C16_FunctionOfOrder ==
  Emitted =>
    /\ ramMain = mainOf(cfg, prog, ord)
    /\ (\A i \in DOMAIN prog.sccs : Cardinality(prog.sccs[i]) = 1)
         => \A o \in Orders(prog) : mainOf(cfg, prog, o) = ramMain

\* a program with an SCC of two members has been translated, and the other
\* iteration order gives another sequence of statements
C16_Witness ==
  /\ Emitted
  /\ \E i \in DOMAIN prog.sccs : Cardinality(prog.sccs[i]) = 2
  /\ \E o \in Orders(prog) : o # ord /\ mainOf(cfg, prog, o) # ramMain

\* ------------------------------------------------------------------------
\* The empty program
\* ------------------------------------------------------------------------

\* the program without relations has been translated
EmptyTranslated == at = "done" /\ prog = ProgEmpty

\* C17 (as stated): a program with no relations and no SCCs gives an empty
\* sequence when profiling is off and exactly one LogTimer around an empty
\* sequence when profiling is on.
C17_AsStated ==
  EmptyTranslated => ramMain = IF cfg.profile THEN << RamLogTimer >> ELSE << >>

\* C17 (amended): a program with no relations and no SCCs gives an empty
\* sequence, with profiling on as with profiling off; no subroutine and no
\* relation is registered.
C17_EmptyProgram ==
  EmptyTranslated =>
    /\ ramMain = << >>
    /\ cleanupSub = << >> /\ exitSubs = {}
    /\ DOMAIN ramRelations = {}

\* the empty program has been translated with profiling on
C17_Witness == EmptyTranslated /\ cfg.profile /\ ramMain = << >>

\* the clause translator has returned the query of a rule with a nullary
\* head and a single body atom, without negation
NullaryOverOneAtom ==
  /\ ct.at = "done"
  /\ Len(ct.originalClause.head.args) = 0
  /\ Len(ct.originalClause.atoms) = 1
  /\ ct.originalClause.negations = << >>

plainArguments(atom) == \A p \in DOMAIN atom.args : atom.args[p].kind \in {"variable", "unnamed"}

scansOf(query) ==
  LET scans == SelectSeq(query, LAMBDA op : op.o = "Scan")
  IN [ i \in DOMAIN scans |-> scans[i].rel ]

\* the relations of those atoms that get a Scan, in the order given
scannedAtoms(atoms) ==
  LET kept == SelectSeq(atoms, LAMBDA atom : scanned(atom.args))
  IN [ i \in DOMAIN kept |-> kept[i].name ]

\* the atoms of a clause in the order of its plan
inPlanOrder(clause) == [ i \in DOMAIN clause.plan.order |-> clause.atoms[clause.plan.order[i]] ]

\* C19: translateClause is entered at most twice; for a clause with a plan
\* that has an order for the version it is entered exactly twice, the second
\* time with the plan cleared, and the Scans of the query are nested from the
\* outermost to the innermost in the order of the plan.
C19_PlanOrder ==
  /\ ct.at # "idle" => ct.entries <= 2
  /\ ct.at = "done" /\ hasOrderFor(ct.originalClause.plan, ct.version) =>
       /\ ct.entries = 2
       /\ ct.clause.plan = NoPlan
       /\ ct.clause.atoms = inPlanOrder(ct.originalClause)
       /\ scansOf(ct.query) = scannedAtoms(inPlanOrder(ct.originalClause))

\* a clause whose plan puts the second atom first has been translated, and
\* its Scans are not in source order
C19_Witness ==
  /\ ct.at = "done"
  /\ hasOrderFor(ct.originalClause.plan, ct.version)
  /\ ct.originalClause.plan.order = << 2, 1 >>
  /\ ct.entries = 2
  /\ Len(scansOf(ct.query)) = 2
  /\ scansOf(ct.query) # scannedAtoms(ct.originalClause.atoms)

\* the tuple elements of a sequence of expressions
tupleElementsOf(values) == { values[i] : i \in { j \in DOMAIN values : values[j].e = "TupleElement" } }

\* the tuple elements the operation at position i of a query evaluates with
\* the tuples of the operations around it
elementsOfOperation(query, i) ==
  tupleElementsOf(query[i].values) \cup tupleElementsOf(query[i].cond.values)

\* the operation at position j binds the tuple of the level, and the
\* operation at position i is nested in it
dominates(kinds, query, j, i, level) ==
  /\ query[j].o \in kinds
  /\ query[j].level = level
  /\ j < i

\* the condition of an Aggregate is evaluated on its own tuple
ownTuple(query, i, level) == query[i].o = "Aggregate" /\ query[i].level = level

dominatedBy(kinds, query) ==
  \A i \in DOMAIN query : \A el \in elementsOfOperation(query, i) :
    \/ \E j \in DOMAIN query : dominates(kinds, query, j, i, el.level)
    \/ ownTuple(query, i, el.level) /\ "Aggregate" \in kinds

\* C20 as stated: every TupleElement(level, col) of a query lies inside the
\* Scan or UnpackRecord that allocates the level.
C20_AsStated ==
  ct.at = "done" => dominatedBy({"Scan", "UnpackRecord"}, ct.query)

\* C20: every TupleElement(level, col) of a query lies inside the Scan,
\* UnpackRecord or Aggregate that allocates the level (the level of an
\* aggregator is allocated by its Aggregate); this holds also when the Scan
\* of an atom is omitted because the atom has arity 0 or only unnamed
\* arguments.
C20_Dominated ==
  ct.at = "done" => dominatedBy({"Scan", "UnpackRecord", "Aggregate"}, ct.query)

\* a query with tuple elements of level 1 whose atom of level 0 got no Scan
C20_Witness ==
  /\ ct.at = "done"
  /\ Len(ct.clause.atoms) = 2
  /\ ~scanned(ct.clause.atoms[1].args)
  /\ \E i \in DOMAIN ct.query : \E el \in elementsOfOperation(ct.query, i) : el.level = 1
  /\ ~\E i \in DOMAIN ct.query : ct.query[i].o = "Scan" /\ ct.query[i].level = 0

\* ------------------------------------------------------------------------
\* C21: a head without the constant pair of counts
\* ------------------------------------------------------------------------

\* the clauses whose head lacks a number constant in a count column
uninitialized(k) ==
  \E n \in 1..2 : dynamic_cast_AstNumberConstant(cnt.heads[k][n]) = nullptr

\* C21: when the head of a rule lacks the constant pair (prev_count,
\* current_count) the translator writes the message, emits no statement for
\* that rule and goes on with the next one; it does not fault.
C21_AsStated ==
  cnt.at # "idle" =>
    /\ cnt.at # "fault"
    /\ \A k \in DOMAIN cnt.heads : uninitialized(k) => cnt.rules[k] = << >>

\* the message was written for the clause and the translator has faulted
C21_Faulted ==
  /\ cnt.at = "fault"
  /\ uninitialized(cnt.i)
  /\ cnt.log # << >>

\* the message was written for the clause and its rules were emitted
C21_Emitted ==
  /\ cnt.at = "done"
  /\ \E k \in DOMAIN cnt.heads : uninitialized(k) /\ cnt.rules[k] # << >>

\* ------------------------------------------------------------------------
\* C22: the body of an aggregator
\* ------------------------------------------------------------------------

\* the number of atoms in the body of an aggregator
atomsOfBody(agg) == Len(SelectSeq(agg.body, LAMBDA lit : lit.lit = "atom"))

\* C22: translating a clause with an aggregator whose body has more than one
\* atom ends in a fault and emits no query for the clause; an aggregator body
\* with exactly one atom and any number of constraints is translated without
\* a fault.
C22_AsStated ==
  ct.at \in {"done", "fault"} =>
    \A i \in DOMAIN aggregatorsOf(ct.clause) :
      /\ atomsOfBody(aggregatorsOf(ct.clause)[i]) > 1 => ct.at = "fault" /\ ct.query = << >>
      /\ atomsOfBody(aggregatorsOf(ct.clause)[i]) = 1 => ct.at = "done"

\* a body of two atoms was translated, with assertions, into a query whose
\* Aggregate ranges over the first atom
C22_TwoAtomsTranslated ==
  /\ ct.at = "done" /\ ct.assertions
  /\ \E i \in DOMAIN aggregatorsOf(ct.clause) : atomsOfBody(aggregatorsOf(ct.clause)[i]) = 2
  /\ \E k \in DOMAIN ct.query : ct.query[k].o = "Aggregate" /\ ct.query[k].rel = "r1"

\* a body of one atom and one constraint made the translator fault
C22_ConstraintFaults ==
  /\ ct.at = "fault"
  /\ \A i \in DOMAIN aggregatorsOf(ct.clause) : atomsOfBody(aggregatorsOf(ct.clause)[i]) = 1

\* the translator faults in a build with assertions only, and only on an
\* aggregator with a literal that is not an atom after its atom
C22_FaultOnlyOnConstraint ==
  ct.at = "fault" =>
    /\ ct.assertions
    /\ \E i \in DOMAIN aggregatorsOf(ct.clause) :
         \E k \in DOMAIN aggregatorsOf(ct.clause)[i].body :
           k > 1 /\ aggregatorsOf(ct.clause)[i].body[k].lit = "constraint"

\* ------------------------------------------------------------------------
\* C23: previous_indexed_R in the preamble of an incremental SCC
\* ------------------------------------------------------------------------

\* the positions of the main program at which R is merged into
\* previous_indexed_R
copiesOf(r) ==
  { p \in DOMAIN ramMain :
      /\ ramMain[p].op = "Merge"
      /\ ramMain[p].dst = translatePreviousIndexedRelation(r)
      /\ ramMain[p].src = translateRelation(r, "") }

\* the positions at which delta_R is seeded from previous_indexed_R before
\* the loop
seedsOf(r) ==
  { p \in DOMAIN ramMain :
      /\ ramMain[p].op = "PositiveMerge" /\ ramMain[p].part = "preamble"
      /\ ramMain[p].dst = translateDeltaRelation(r)
      /\ ramMain[p].src = translatePreviousIndexedRelation(r) }

\* the members of the recursive SCCs
recursiveMembers == UNION { prog.sccs[i] : i \in { k \in DOMAIN prog.sccs : prog.rec[k] } }

\* how often a tuple of R is counted in previous_indexed_R when a Merge adds
\* the counts of the source to those of the target
timesCounted(r) == Cardinality(copiesOf(r))

\* C23: in incremental mode the preamble of an SCC with n members merges R
\* into previous_indexed_R exactly once per member R, before the positive
\* merge that seeds delta_R from previous_indexed_R, so that with merges that
\* add counts previous_indexed_R equals R for any n.
C23_AsStated ==
  Emitted /\ cfg.incremental =>
    \A r \in recursiveMembers :
      /\ timesCounted(r) = 1
      /\ \A p \in copiesOf(r), q \in seedsOf(r) : p < q

\* what holds instead: R is merged into previous_indexed_R once for every
\* member of its SCC, and at least one of the merges precedes the seed
C23_OncePerPair ==
  Emitted /\ cfg.incremental =>
    \A r \in recursiveMembers :
      /\ timesCounted(r) = Cardinality(prog.sccs[sccOf(prog, r)])
      /\ Cardinality(seedsOf(r)) = 1
      /\ \A q \in seedsOf(r) : \E p \in copiesOf(r) : p < q
      /\ \A p \in copiesOf(r) : ramMain[p].part = "preamble"

\* an SCC of two members: every tuple of a is counted twice
C23_CountedTwice ==
  /\ Emitted /\ cfg.incremental
  /\ \E r \in recursiveMembers : timesCounted(r) = 2

\* ------------------------------------------------------------------------
\* The rules of the incremental translation
\* ------------------------------------------------------------------------

\* the Queries of the main program that were translated from a clause
Rules == { p \in DOMAIN ramMain : ramMain[p].op = "Query" /\ ramMain[p].clause # NoRule }

\* the Query of a rule writes the head of the rule, requires every body atom
\* to be non-empty and probes the relations of the other literals (and, where
\* the projection checks for the tuple, the head)
RuleConsistent ==
  Emitted =>
    \A p \in Rules :
      LET s == ramMain[p] IN
        /\ s.dst = s.clause.head.name
        /\ s.ne = { s.clause.atoms[j].name : j \in DOMAIN s.clause.atoms }
        /\ probesOf(s.clause) \subseteq s.ex /\ s.ex \ probesOf(s.clause) \subseteq {s.dst}
        /\ Len(s.clause.relations) = Len(s.clause.atoms)

\* the rules emitted for the non-recursive clauses of a relation
nonRecursiveRules(rel) ==
  { p \in Rules : ramMain[p].rel = rel /\ ramMain[p].part # "body" }

\* the non-recursive clauses of a relation
nonRecursiveClauses(rel) == SelectSeq(getClauses(prog, rel), LAMBDA c : ~recursive(prog, c))

\* the literals of the body of a rule that are about the atom at position j
\* of the clause: they carry its @iteration variable
literalsOn(rule, j) ==
  { k \in DOMAIN rule.body :
      \/ rule.body[k].lit \in {"positiveNegation", "existenceCheck"}
           /\ getIteration(rule.body[k]) = annotationsOf(j)[1]
      \/ rule.body[k].lit = "disjunction"
           /\ getIteration(rule.body[k].args[1]) = annotationsOf(j)[1] }

\* the literal is PositiveNegation(notIn(prev, _)) OR ExistenceCheck(in(0, 1))
isGuard(l, notIn, prev, in) ==
  /\ l.lit = "disjunction"
  /\ l.args[1].lit = "positiveNegation" /\ l.args[1].name = notIn
  /\ getPrevCount(l.args[1]) = AstNumberConstant(prev) /\ getCurCount(l.args[1]) = AstUnnamedVariable
  /\ l.args[2].lit = "existenceCheck" /\ l.args[2].name = in
  /\ getPrevCount(l.args[2]) = AstNumberConstant(0) /\ getCurCount(l.args[2]) = AstNumberConstant(1)

\* the constraints of the body that compare a count of the atom at position i
countGuards(rule, i) ==
  { rule.body[k] : k \in { m \in DOMAIN rule.body :
      rule.body[m].lit = "constraint"
        /\ rule.body[m].args[1] \in { annotationsOf(i)[2], annotationsOf(i)[3] } } }

\* the literals of the body that are about a negated atom of the clause
negationLiterals(rule) ==
  { rule.body[k] : k \in { m \in DOMAIN rule.body :
      rule.body[m].lit \in {"positiveNegation", "negation"}
        /\ getIteration(rule.body[m]) = AstUnnamedVariable } }

\* the positions of the atoms of a rule that range over the count relation
\* of an update
pivots(rule, c, plus) ==
  { i \in DOMAIN c.atoms :
      rule.atoms[i].name = IF plus THEN translateDiffPlusCountRelation(c.atoms[i])
                           ELSE translateDiffMinusCountRelation(c.atoms[i]) }

\* ------------------------------------------------------------------------
\* C24: the insertion rules of a non-recursive clause
\* ------------------------------------------------------------------------

\* the insertion rules of a relation that pivot on a body atom of the clause
insertionRules(rel, c) ==
  { p \in nonRecursiveRules(rel) :
      /\ ramMain[p].clause.head.name = translateDiffPlusRelation(rel)
      /\ Len(ramMain[p].clause.atoms) = Len(c.atoms) }

\* the shape of the insertion rule with pivot i
isInsertionRuleAt(rule, rel, c, i) ==
  /\ rule.head.name = translateDiffPlusRelation(rel)
  /\ pivots(rule, c, TRUE) = {i}
  /\ countGuards(rule, i) =
       { AstBinaryConstraint("LE", annotationsOf(i)[2], AstNumberConstant(0)),
         AstBinaryConstraint("GT", annotationsOf(i)[3], AstNumberConstant(0)) }
  /\ \A j \in 1..(i - 1) :
       /\ rule.atoms[j].name = translateDiffAppliedRelation(c.atoms[j])
       /\ Cardinality(literalsOn(rule, j)) = 1
       /\ \A k \in literalsOn(rule, j) :
            isGuard(rule.body[k], translateDiffPlusCountRelation(c.atoms[j]), 0,
                    translateRelation(c.atoms[j], ""))
  /\ \A j \in (i + 1)..Len(c.atoms) :
       /\ rule.atoms[j].name = translateDiffAppliedRelation(c.atoms[j])
       /\ literalsOn(rule, j) = {}
  /\ { l.lit : l \in negationLiterals(rule) } \subseteq {"positiveNegation"}
  /\ { l.name : l \in negationLiterals(rule) } = { translateDiffAppliedRelation(c.negs[k]) : k \in DOMAIN c.negs }

deletionRules(rel, c) ==
  { p \in nonRecursiveRules(rel) :
      /\ ramMain[p].clause.head.name = translateDiffMinusRelation(rel)
      /\ Len(ramMain[p].clause.atoms) = Len(c.atoms) }

mirrorRules(rel, c) ==
  { p \in nonRecursiveRules(rel) :
      /\ ramMain[p].clause.head.name = translateDiffMinusRelation(rel)
      /\ Len(ramMain[p].clause.atoms) = Len(c.atoms) + 1 }

\* head, pivot and count guards of the deletion rule with pivot i
isDeletionPivot(rule, rel, c, i) ==
  /\ rule.head.name = translateDiffMinusRelation(rel)
  /\ pivots(rule, c, FALSE) = {i}
  /\ countGuards(rule, i) =
       { AstBinaryConstraint("GT", annotationsOf(i)[2], AstNumberConstant(0)),
         AstBinaryConstraint("LE", annotationsOf(i)[3], AstNumberConstant(0)) }

\* the mirror rule of the negation at position i pivots on diff_plus_count
isMirrorRuleAt(rule, c, i) ==
  rule.atoms[Len(c.atoms) + 1].name = translateDiffPlusCountRelation(c.negs[i])

\* the deletion rule with pivot i as the statement describes it: every atom
\* that is not the pivot reads diff_minus_applied, the atoms before the pivot
\* with the constraint (not in diff_minus_count OR in base)
isDeletionRuleAsStated(rule, rel, c, i) ==
  /\ isDeletionPivot(rule, rel, c, i)
  /\ \A j \in DOMAIN c.atoms \ {i} :
       rule.atoms[j].name = translateDiffMinusAppliedRelation(c.atoms[j])
  /\ \A j \in 1..(i - 1) :
       /\ Cardinality(literalsOn(rule, j)) = 1
       /\ \A k \in literalsOn(rule, j) :
            isGuard(rule.body[k], translateDiffMinusCountRelation(c.atoms[j]), -1,
                    translateRelation(c.atoms[j], ""))

\* the deletion rule with pivot i as it is emitted: the atoms after the
\* pivot read diff_minus_applied, the atoms before it read the relation
\* itself with the constraint (not in diff_minus_count OR in diff_applied),
\* and the negations are evaluated over the relation itself
isDeletionRuleAt(rule, rel, c, i) ==
  /\ isDeletionPivot(rule, rel, c, i)
  /\ \A j \in (i + 1)..Len(c.atoms) :
       /\ rule.atoms[j].name = translateDiffMinusAppliedRelation(c.atoms[j])
       /\ literalsOn(rule, j) = {}
  /\ \A j \in 1..(i - 1) :
       /\ rule.atoms[j].name = translateRelation(c.atoms[j], "")
       /\ Cardinality(literalsOn(rule, j)) = 1
       /\ \A k \in literalsOn(rule, j) :
            isGuard(rule.body[k], translateDiffMinusCountRelation(c.atoms[j]), -1,
                    translateDiffAppliedRelation(c.atoms[j]))
  /\ { l.lit : l \in negationLiterals(rule) } \subseteq {"positiveNegation"}
  /\ { l.name : l \in negationLiterals(rule) } = { translateRelation(c.negs[k], "") : k \in DOMAIN c.negs }

\* C25 as stated: the deletion rules mirror the insertion rules: one rule per
\* pivot i whose head writes diff_minus, whose pivot atom reads
\* diff_minus_count under prev_count_i > 0 and current_count_i <= 0, whose
\* non-pivot atoms read diff_minus_applied (atoms j < i with the constraint
\* not in diff_minus_count OR in base), and whose negation mirror rules pivot
\* on diff_plus_count.
C25_AsStated ==
  Emitted /\ cfg.incremental =>
    \A rel \in DOMAIN prog.rels :
      Len(nonRecursiveClauses(rel)) = 1 =>
        LET c == nonRecursiveClauses(rel)[1]
            rules == deletionRules(rel, c)
        IN  \A i \in DOMAIN c.atoms :
              \E p \in rules : isDeletionRuleAsStated(ramMain[p].clause, rel, c, i)

\* C25 as the code has it: one deletion rule per pivot i, in the order of the
\* pivots, with head diff_minus, pivot over diff_minus_count under
\* prev_count_i > 0 and current_count_i <= 0; the atoms j > i read
\* diff_minus_applied, the atoms j < i read the relation itself and carry one
\* constraint (not in diff_minus_count OR in diff_applied); one mirror rule
\* per negation, with an added atom over diff_plus_count of the negated
\* relation.
C25_DeletionRules ==
  Emitted /\ cfg.incremental =>
    \A rel \in DOMAIN prog.rels :
      Len(nonRecursiveClauses(rel)) = 1 =>
        LET c == nonRecursiveClauses(rel)[1]
            rules == deletionRules(rel, c)
            mirrors == mirrorRules(rel, c)
        IN  /\ Cardinality(rules) = Len(c.atoms)
            /\ \A i \in DOMAIN c.atoms :
                 \E p \in rules :
                   /\ Cardinality({ q \in rules : q < p }) = i - 1
                   /\ isDeletionRuleAt(ramMain[p].clause, rel, c, i)
            /\ Cardinality(mirrors) = Len(c.negs)
            /\ \A i \in DOMAIN c.negs :
                 \E p \in mirrors :
                   /\ Cardinality({ q \in mirrors : q < p }) = i - 1
                   /\ isMirrorRuleAt(ramMain[p].clause, c, i)

\* the deletion rule with the third of three atoms as the pivot: two atoms
\* before the pivot read the relation itself
C25_Witness ==
  /\ Emitted /\ cfg.incremental /\ prog = ProgJoin
  /\ \E p \in deletionRules("p", nonRecursiveClauses("p")[1]) :
       /\ isDeletionRuleAt(ramMain[p].clause, "p", nonRecursiveClauses("p")[1], 3)
       /\ ramMain[p].clause.atoms[1].name = "e"
       /\ ramMain[p].clause.atoms[2].name = "f"
  /\ Cardinality(mirrorRules("p", nonRecursiveClauses("p")[1])) = 2

\* ------------------------------------------------------------------------
\* C26: the versions of a rule in the loop body of an incremental SCC
\* ------------------------------------------------------------------------

\* the rules of the loop bodies, and the SCC of the loop a rule is in
loopRules == { p \in Rules : ramMain[p].part = "body" }
sccOfRule(p) == prog.sccs[ramMain[p].scc + 1]

\* the delta variants of a relation, each with the variant it is the delta of
deltaOf(r) ==
  { << translateDeltaRelation(r), translateRelation(r, "") >>,
    << translateDeltaDiffAppliedRelation(r), translateDiffAppliedRelation(r) >>,
    << translateDeltaDiffPlusCountRelation(r), translateDiffPlusCountRelation(r) >>,
    << translateDeltaDiffMinusCountRelation(r), translateDiffMinusCountRelation(r) >>,
    << translateDeltaDiffMinusAppliedRelation(r), translateDiffMinusAppliedRelation(r) >> }

\* the positions of the atoms of a rule that read a delta variant
deltaAtoms(rule) ==
  { m \in DOMAIN rule.atoms : \E d \in deltaOf(rule.relations[m]) : rule.atoms[m].name = d[1] }

\* the atoms of a rule that are atoms of the clause, by their position in
\* the clause: the atom at position k carries the variable @iteration_(k-1)
sourceAtoms(rule) ==
  { k \in DOMAIN rule.atoms : \E m \in DOMAIN rule.atoms : getIteration(rule.atoms[m]) = annotationsOf(k)[1] }
atomAt(rule, k) ==
  CHOOSE m \in DOMAIN rule.atoms : getIteration(rule.atoms[m]) = annotationsOf(k)[1]

\* the variant the atom of position k reads, the delta left aside
categoryAt(rule, k) ==
  LET m == atomAt(rule, k)
      ds == { d \in deltaOf(rule.relations[m]) : rule.atoms[m].name = d[1] }
  IN  IF ds = {} THEN rule.atoms[m].name ELSE (CHOOSE d \in ds : TRUE)[2]

\* the positions whose atom carries iteration_k < IterationNumber - 1
iterationBounded(rule) ==
  { k \in sourceAtoms(rule) :
      \E m \in DOMAIN rule.body :
        rule.body[m] = AstBinaryConstraint("LT", annotationsOf(k)[1],
                         AstIntrinsicFunctor("SUB", AstIterationNumber, AstNumberConstant(1))) }

\* the rule writes new_diff_plus: it is an insertion or a re-derivation rule
writesNewDiffPlus(p) == ramMain[p].clause.head.name = translateNewDiffPlusRelation(ramMain[p].rel)

\* the position of the only delta atom of a rule
deltaPivot(rule) == CHOOSE k \in sourceAtoms(rule) : atomAt(rule, k) \in deltaAtoms(rule)

\* the variants the atoms of an insertion or re-derivation rule read: all
\* diff_applied, but for the pivot of the insertion
isInsertionShape(rule) ==
  \E pivot \in SUBSET sourceAtoms(rule) :
    /\ Cardinality(pivot) <= 1
    /\ \A k \in sourceAtoms(rule) :
         categoryAt(rule, k) = IF k \in pivot THEN translateDiffPlusCountRelation(rule.relations[atomAt(rule, k)])
                               ELSE translateDiffAppliedRelation(rule.relations[atomAt(rule, k)])

\* the variants the atoms of a deletion rule read: the relation itself
\* before the pivot of the deletion, diff_minus_count at the pivot,
\* diff_minus_applied after it; without such a pivot the relation itself
isDeletionShape(rule) ==
  \E i \in sourceAtoms(rule) \cup {Len(rule.atoms) + 1} :
    \A k \in sourceAtoms(rule) :
      categoryAt(rule, k) =
        IF k < i THEN translateRelation(rule.relations[atomAt(rule, k)], "")
        ELSE IF k = i THEN translateDiffMinusCountRelation(rule.relations[atomAt(rule, k)])
        ELSE translateDiffMinusAppliedRelation(rule.relations[atomAt(rule, k)])

\* C26 as stated: in every rule of the loop body of an incremental SCC with
\* the delta at body position j, atom j is the only atom that reads a delta
\* variant, every atom k < j of an insertion or re-derivation rule reads
\* diff_applied, and every atom k > j reads a non-delta variant and carries
\* the constraint iteration_k < IterationNumber - 1.
C26_AsStated ==
  Emitted /\ cfg.incremental =>
    \A p \in loopRules :
      LET rule == ramMain[p].clause
          j == deltaPivot(rule)
      IN  /\ Cardinality(deltaAtoms(rule)) = 1
          /\ writesNewDiffPlus(p) =>
               \A k \in sourceAtoms(rule) :
                 k < j => categoryAt(rule, k) = translateDiffAppliedRelation(rule.relations[atomAt(rule, k)])
          /\ \A k \in sourceAtoms(rule) : k > j => k \in iterationBounded(rule)

\* C26 as the code has it: in every rule of the loop body of an incremental
\* SCC exactly one atom reads a delta variant, an atom of the clause whose
\* relation is in the SCC, at position j; the other atoms read the non-delta
\* variants of the rule (insertion and re-derivation: diff_applied, the
\* pivot of the insertion diff_plus_count; deletion: the relation itself
\* before the pivot of the deletion, diff_minus_count at it,
\* diff_minus_applied after it); and the constraint iteration_k <
\* IterationNumber - 1 is carried by exactly the atoms k > j whose relation
\* is in the SCC.
C26_DeltaRules ==
  Emitted /\ cfg.incremental =>
    \A p \in loopRules :
      LET rule == ramMain[p].clause
          j == deltaPivot(rule)
      IN  /\ Cardinality(deltaAtoms(rule)) = 1
          /\ \E k \in sourceAtoms(rule) : deltaAtoms(rule) = { atomAt(rule, k) }
          /\ isInSameSCC(sccOfRule(p), rule.relations[atomAt(rule, j)])
          /\ IF writesNewDiffPlus(p) THEN isInsertionShape(rule) ELSE isDeletionShape(rule)
          /\ iterationBounded(rule) =
               { k \in sourceAtoms(rule) :
                   k > j /\ isInSameSCC(sccOfRule(p), rule.relations[atomAt(rule, k)]) }

\* the clause t :- t, e, t, !n: a version with the delta at the first atom,
\* whose second atom (not in the SCC) carries no constraint and whose third
\* atom does, has been emitted
C26_Witness ==
  /\ Emitted /\ cfg.incremental /\ prog = ProgJoin
  /\ \E p \in loopRules :
       LET rule == ramMain[p].clause IN
         /\ Cardinality(sourceAtoms(rule)) = 3
         /\ deltaAtoms(rule) = { atomAt(rule, 1) }
         /\ iterationBounded(rule) = {3}
         /\ rule.atoms[atomAt(rule, 2)].name = translateDiffAppliedRelation("e")

\* ------------------------------------------------------------------------
\* C27: the re-derivation rules of an incremental SCC
\* ------------------------------------------------------------------------

\* the recursive clauses of a relation
recursiveClauses(rel) == SelectSeq(getClauses(prog, rel), LAMBDA c : recursive(prog, c))

\* the re-derivation rules of a relation: the rules of the loop body that
\* require every atom of the clause to be in the relation itself now
reinsertionRulesOf(rel) ==
  { p \in loopRules :
      /\ ramMain[p].rel = rel
      /\ \E m \in DOMAIN ramMain[p].clause.body : ramMain[p].clause.body[m].lit = "existenceCheck" }

\* the positions of the probe atoms of a rule: atoms over diff_minus_count
\* of the head relation whose current count is @deleted_count
probeAtoms(rule, rel) ==
  { m \in DOMAIN rule.atoms :
      /\ rule.atoms[m].name = translateDiffMinusCountRelation(rel)
      /\ getCurCount(rule.atoms[m]) = AstVariable("@deleted_count") }

\* one version per atom of the SCC of every recursive clause
versionsOf(rel) ==
  Len(SeqConcat([ k \in DOMAIN recursiveClauses(rel) |->
        sccAtoms(prog.sccs[sccOf(prog, rel)], recursiveClauses(rel)[k]) ]))

\* C27: every re-derivation rule emitted in the loop body of an incremental
\* SCC has one probe atom over diff_minus_count of the head relation with
\* the constraint @deleted_count <= 0, writes its head to new_diff_plus,
\* carries a subsumption negation against diff_applied of the head, and has
\* the probe atom as its first body atom, which the emitted query scans.
C27_Reinsertion ==
  Emitted /\ cfg.incremental =>
    \A rel \in DOMAIN prog.rels :
      /\ Cardinality(reinsertionRulesOf(rel)) = versionsOf(rel)
      /\ \A p \in reinsertionRulesOf(rel) :
           LET rule == ramMain[p].clause IN
             /\ Cardinality(probeAtoms(rule, rel)) = 1
             /\ \E m \in DOMAIN rule.body :
                  rule.body[m] = AstBinaryConstraint("LE", AstVariable("@deleted_count"), AstNumberConstant(0))
             /\ rule.head.name = translateNewDiffPlusRelation(rel)
             /\ ramMain[p].dst = translateNewDiffPlusRelation(rel)
             /\ \E m \in DOMAIN rule.body :
                  /\ rule.body[m].lit = "subsumptionNegation"
                  /\ rule.body[m].name = translateDiffAppliedRelation(rel)
             /\ probeAtoms(rule, rel) = {1}
             /\ rule.atoms[1].name \in ramMain[p].rd

\* the re-derivation rule of t :- t, e, t, !n with the delta at the third
\* atom of the clause: the probe is the first of four atoms
C27_Witness ==
  /\ Emitted /\ cfg.incremental /\ prog = ProgJoin
  /\ \E p \in reinsertionRulesOf("t") :
       LET rule == ramMain[p].clause IN
         /\ Len(rule.atoms) = 4
         /\ probeAtoms(rule, "t") = {1}
         /\ rule.atoms[4].name = translateDeltaDiffAppliedRelation("t")
         /\ rule.atoms[2].name = translateDiffAppliedRelation("t")

\* ------------------------------------------------------------------------
\* C28: the fixpoint of a recursive SCC without the incremental extension
\* ------------------------------------------------------------------------

\* the statements of one part of the translation of an SCC
partOf(i, part) == { p \in Pos : ramMain[p].scc = i /\ ramMain[p].part = part }

\* the n-th position of a set of positions
nthOf(S, n) == CHOOSE p \in S : Cardinality({ q \in S : q < p }) = n - 1

\* the rules of the loop body of a relation
loopRulesOf(rel) == { p \in loopRules : ramMain[p].rel = rel }

\* the positions of the atoms of a rule that range over the delta relation
\* of their relation
deltaScans(rule) ==
  { m \in DOMAIN rule.atoms : rule.atoms[m].name = translateDeltaRelation(rule.relations[m]) }

\* the versions a relation has: for every recursive clause, one per atom of
\* the SCC, each with the atoms of the clause and the position of the delta
expectedVersions(rel) ==
  SeqConcat([ k \in DOMAIN recursiveClauses(rel) |->
    [ v \in DOMAIN sccAtoms(prog.sccs[sccOf(prog, rel)], recursiveClauses(rel)[k]) |->
        [ atoms |-> recursiveClauses(rel)[k].atoms,
          delta |-> sccAtoms(prog.sccs[sccOf(prog, rel)], recursiveClauses(rel)[k])[v] ] ] ])

\* the seed of the delta relation of a member in the preamble
seedsOfDelta(i, rel) ==
  { p \in partOf(i, "preamble") :
      /\ ramMain[p].op = "Merge"
      /\ ramMain[p].dst = translateDeltaRelation(rel)
      /\ ramMain[p].src = translateRelation(rel, "") }

\* the n-th rule of the loop body of a relation is the given version
isVersion(p, rel, version) ==
  LET rule == ramMain[p].clause IN
    /\ rule.relations = version.atoms
    /\ deltaScans(rule) = {version.delta}
    /\ \A m \in DOMAIN rule.atoms \ {version.delta} :
         rule.atoms[m].name = translateRelation(rule.relations[m], "")
    /\ translateDeltaRelation(rule.relations[version.delta]) \in ramMain[p].ne
    /\ arityOf(cfg, prog, rule.relations[version.delta]) > 0 =>
         ramMain[p].rd = { rule.atoms[m].name : m \in DOMAIN rule.atoms }
    /\ rule.head.name = translateNewRelation(rel)
    /\ ramMain[p].dst = translateNewRelation(rel)

\* C28: without the incremental extension, the translation of a recursive
\* SCC has a preamble that merges R into delta_R after the rules of the
\* non-recursive clauses of R, a loop with, for every recursive clause, one
\* rule per body atom of the SCC, which scans delta at exactly that atom and
\* writes new_R, an exit whose condition is the emptiness of new_R of every
\* member, and a postamble that drops delta_R and new_R.
C28_SemiNaive ==
  Emitted /\ ~cfg.incremental =>
    \A i \in recursiveSccs :
      /\ Before(partOf(i, "preamble"), partOf(i, "body"))
      /\ Before(partOf(i, "body"), partOf(i, "exit"))
      /\ Before(partOf(i, "exit"), partOf(i, "postamble"))
      /\ Cardinality(partOf(i, "exit")) = 1
      /\ \A p \in partOf(i, "exit") :
           /\ ramMain[p].op = "Exit" /\ ramMain[p].src = ""
           /\ ramMain[p].ed = { translateNewRelation(rel) : rel \in prog.sccs[i + 1] }
      /\ { ramMain[p].op : p \in partOf(i, "loop") } = {"LoopBegin", "LoopEnd"}
      /\ { << ramMain[p].op, ramMain[p].dst >> : p \in partOf(i, "postamble") } =
           UNION { { << "Drop", translateDeltaRelation(rel) >>, << "Drop", translateNewRelation(rel) >> } :
                   rel \in prog.sccs[i + 1] }
      /\ \A rel \in prog.sccs[i + 1] :
           /\ Cardinality(seedsOfDelta(i, rel)) = 1
           /\ \A p \in seedsOfDelta(i, rel) :
                \A q \in partOf(i, "preamble") :
                  ramMain[q].op = "Query" /\ ramMain[q].rel = rel => q < p
           /\ Cardinality({ q \in partOf(i, "preamble") : ramMain[q].op = "Query" /\ ramMain[q].rel = rel })
                = Len(nonRecursiveClauses(rel))
           /\ loopRulesOf(rel) \subseteq partOf(i, "body")
           /\ Cardinality(loopRulesOf(rel)) = Len(expectedVersions(rel))
           /\ \A n \in DOMAIN expectedVersions(rel) :
                isVersion(nthOf(loopRulesOf(rel), n), rel, expectedVersions(rel)[n])

\* the clause t :- t, e, t, !n without the incremental extension: two
\* versions, with the delta at the first and at the third atom
C28_Witness ==
  /\ Emitted /\ ~cfg.incremental /\ prog = ProgJoin
  /\ Cardinality(loopRulesOf("t")) = 2
  /\ deltaScans(ramMain[nthOf(loopRulesOf("t"), 1)].clause) = {1}
  /\ deltaScans(ramMain[nthOf(loopRulesOf("t"), 2)].clause) = {3}
  /\ seedsOfDelta(5, "t") # {}

\* ------------------------------------------------------------------------
\* C29: the relations themselves during an epoch of the incremental program
\* ------------------------------------------------------------------------

\* the statements of the main program that write a relation itself
baseWriters == { p \in Pos : Writes(ramMain[p]) \cap baseRelations # {} }

\* the statements of the main program that write a new relation of a member
newWriters == { p \in Pos : \E R \in DOMAIN prog.rels : translateNewRelation(R) \in Writes(ramMain[p]) }

\* the targets of the loads and rules of the emitted program, and the
\* classic statements of the iteration boundary
incrementalTargets ==
  /\ \A p \in Pos :
       LET s == ramMain[p] IN
         /\ s.op = "Load" => s.dst = translateDiffPlusRelation(s.rel)
         /\ s.op = "Query" /\ s.part # "body" =>
              s.dst \in { translateDiffPlusRelation(s.rel), translateDiffMinusRelation(s.rel) }
         /\ s.op = "Query" /\ s.part = "body" =>
              s.dst \in { translateNewDiffPlusRelation(s.rel), translateNewDiffMinusRelation(s.rel) }
  /\ \A p \in baseWriters :
       /\ ramMain[p].op = "Merge" /\ ramMain[p].part = "update"
       /\ ramMain[p].dst = translateRelation(ramMain[p].rel, "")
       /\ ramMain[p].src = translateNewRelation(ramMain[p].rel)
  /\ \A p \in newWriters :
       /\ ramMain[p].op = "Swap" /\ ramMain[p].part = "update"
       /\ ramMain[p + 1].op = "Clear" /\ ramMain[p + 1].dst = translateNewRelation(ramMain[p].rel)
  /\ \A i \in recursiveSccs : \A R \in prog.sccs[i + 1] :
       \E p \in InUpdate(i) :
         /\ ramMain[p] = [ RamMerge(translateRelation(R, ""), translateNewRelation(R))
                             EXCEPT !.part = "update", !.rel = R, !.scc = i, !.par = ramMain[p].par,
                                    !.blk = ramMain[p].blk ]
         /\ ramMain[p + 1].op = "Swap" /\ ramMain[p + 1].dst = translateDeltaRelation(R)
         /\ ramMain[p + 1].src = translateNewRelation(R)
         /\ ramMain[p + 2].op = "Clear" /\ ramMain[p + 2].dst = translateNewRelation(R)

\* a step of the main program outside the cleanup subroutine
outsideCleanup == at = "done" /\ at' = "done" /\ spc = 0 /\ spc' = 0

\* C29: in incremental mode no statement outside the incremental_cleanup
\* subroutine changes the contents of a relation R itself: facts are loaded
\* into diff_plus_R, the rules outside the loops write diff_plus_R or
\* diff_minus_R, the rules of the loops write new_diff_plus_R or
\* new_diff_minus_R, and Merge(R <- @new_R), Swap(@delta_R, @new_R),
\* Clear(@new_R) are emitted at the iteration boundary but add nothing to R,
\* since no rule writes @new_R, which is empty whenever a step ends.
C29_BaseFrozen ==
  /\ [](Emitted /\ cfg.incremental => incrementalTargets)
  /\ [](at = "done" /\ cfg.incremental =>
          \A R \in DOMAIN prog.rels : Val(translateNewRelation(R)) = {})
  /\ [][cfg.incremental /\ outsideCleanup =>
          \A R \in DOMAIN prog.rels :
            ValIn(store', translateRelation(R, "")) = ValIn(store, translateRelation(R, ""))]_vars

\* in the second epoch the update of the iteration boundary of a loop has
\* just run, the new tuples of the member are in diff_plus, and the relation
\* itself still holds what the cleanup of the first epoch left in it
C29_Witness ==
  /\ at = "done" /\ cfg.incremental /\ epoch = 2 /\ ~cleanupRan /\ spc = 0
  /\ obs.stmt.part = "update"
  /\ Val(translateRelation(obs.stmt.rel, "")) # {}
  /\ Val(translateDiffPlusRelation(obs.stmt.rel)) # {}
  /\ Val(translateNewRelation(obs.stmt.rel)) = {}

\* ------------------------------------------------------------------------
\* C30: the iteration boundary of a loop without the incremental extension
\* ------------------------------------------------------------------------

\* the members of the SCC of the statement about to run
membersAtCur == prog.sccs[Cur.scc + 1]

\* every rule of a loop whose head has columns excludes the tuples of the
\* relation itself: by a negation of the head, under provenance by a
\* subsumption negation, which the query evaluates as an existence check
headsNegated ==
  \A p \in loopRules :
    arityOf(cfg, prog, ramMain[p].rel) > 0 =>
      /\ translateRelation(ramMain[p].rel, "") \in ramMain[p].ex
      /\ \E m \in DOMAIN ramMain[p].clause.body :
           /\ ramMain[p].clause.body[m].lit = IF cfg.provenance THEN "subsumptionNegation" ELSE "negation"
           /\ ramMain[p].clause.body[m].name = translateRelation(ramMain[p].rel, "")

\* the step that runs the update of the iteration boundary
boundaryUpdate == Running /\ spc = 0 /\ Cur.part = "update"

\* the step that evaluates the exit condition
exitCheck == Running /\ spc = 0 /\ Cur.op = "Exit"

====
